---- MODULE Spec2Model ----
(***************************************************************************)
(* Session-scoped state of the place explorer (src/unnamed/part_000,       *)
(* lines 1-988): the member session (memberAuth), the favorite set (favs), *)
(* the per-place comment cache (commentsCache), the search history and the *)
(* detail panel, together with the asynchronous handlers that read and     *)
(* write them.  The page is single-threaded: a handler runs atomically     *)
(* from its start (or from the completion of the request it awaits) to its *)
(* next awaited request.  One action of the model is one such run.         *)
(*                                                                         *)
(* A run is written as an operator from a state record to a state record   *)
(* (see Cur and Commit), so that a handler and the functions it calls      *)
(* compose the way they do in the source.                                  *)
(***************************************************************************)
EXTENDS Bags, FiniteSets, Integers, Sequences, TLC

\* ---- bounds of the model ----
MaxPending == 2       \* backend requests in flight at the same time
MaxComments == 2      \* length of a cached / returned comment list

NULL == "null"
Places == {"p1", "p2"}
Users == {"u1"}
TokenOf(u) == "token"

\* raw text typed by the user, as a sequence of characters
Bodies == {<<>>, <<" ">>, <<"a">>, <<" ", "a">>}
RatingInputs == {0, 5, 6}
NoInput == [body |-> <<>>, rating |-> 0]
NoForm == [id |-> NULL, disabled |-> TRUE]

\* String.prototype.trim on a character sequence
RECURSIVE TrimLeft(_)
TrimLeft(s) == IF s # <<>> /\ Head(s) = " " THEN TrimLeft(Tail(s)) ELSE s
RECURSIVE TrimRight(_)
TrimRight(s) ==
    IF s # <<>> /\ s[Len(s)] = " " THEN TrimRight(SubSeq(s, 1, Len(s) - 1)) ELSE s
Trim(s) == TrimRight(TrimLeft(s))

SeqUpTo(S, n) == UNION {[1..k -> S] : k \in 0..n}

\* ---- Map helpers (commentsCache is a JavaScript Map) ----
MapSet(m, k, v) == [x \in (DOMAIN m) \cup {k} |-> IF x = k THEN v ELSE m[x]]
MapDelete(m, k) == [x \in (DOMAIN m) \ {k} |-> m[x]]
MapGetOr(m, k, d) == IF k \in DOMAIN m THEN m[k] ELSE d

VARIABLES
    memberAuth,      \* { user, idToken, isLoggedIn }
    favs,            \* Set of place ids
    commentsCache,   \* Map place id -> list of comments
    searchHistory,   \* list of { query }
    selectedId,      \* id of the selected place or NULL
    panelActive,     \* slidePanel has class is-active
    panelForm,       \* #panelCommentForm in the panel: its place, whether its controls are disabled
    pending,         \* bag of requests in flight, each with its continuation
    lastOp,          \* history: what the last handler run was and did
    tracking,        \* whether the two history variables below are recorded
    staleKeys,       \* history: cache keys filled by a request older than the last auth event
    ensuredSince,    \* history: places given to ensureComments since the last auth event
    avgOp,           \* history: the last avgRating call and the value it returned
    regionSelect,    \* #regionSelect value ("" is the placeholder option)
    prefSelect,      \* #prefSelect: [value, options]
    citySelect,      \* #citySelect: [value, options]
    geoScope,        \* { level, key, prefKey, cityKey, center, radius, zoom, bbox }
    geoCircle,       \* the guide circle on the map, or NoCircle
    geoBoundaryLayer,\* the boundary layer the page holds a reference to, or NoBoundary
    geoBoundaryCache,\* Map cache key -> geojson or null
    mapLayers,       \* boundary layers currently added to the map
    mapView,         \* what the viewport was last fitted to
    geoPending,      \* bag of /api/geo-boundary requests in flight
    geoOp,           \* history: what the last geo handler run was and did
    PLACES,          \* the normalized spots, in the order served
    markerPool,      \* ids that have a marker
    cluster,         \* ids whose marker is a layer of the cluster group
    markerOp,        \* history: the last syncMarkers call and its add / remove instructions,
                     \* and the list render was last called with
    qValue,          \* #q value, a string as the sequence of its characters
    onlyFavs,        \* #onlyFavs: [checked, disabled]
    onlyDiscount,    \* #onlyDiscount checked
    boundsOnly,      \* #boundsOnly checked
    sortByDistance,  \* #sortByDistance checked
    currentLoc,      \* the located position, or NULL
    selectionLayer,  \* the circle or rectangle drawn on the map, or NoSelection
    centerDot,       \* the marker at the centre of the circle, or NoDot
    radiusValue,     \* #radius value, in metres
    mapShapes,       \* Bag of the selection layers and centre markers added to the map
    selectedTags,    \* Set of tags
    placeD,          \* the _d property of each place object of PLACES (NoD when absent)
    filterOp,        \* history: the last handler run and the filterPlaces call it made, if any
    rawSpot,         \* a spot as /api/spots returns it: its lat and lon
    spot,            \* what normalizeSpot made of rawSpot, or NoSpot
    providerUser,    \* the user the identity provider last reported, NULL when signed out
    verifying,       \* Bag of the handleAuthState runs suspended at an await
    firebaseAuthState, \* window.firebaseAuthState: the detail of the last event emitted
    identityOp,      \* history: the last step of handleAuthState
    backendFavs,     \* the favorite set the backend stores for the user
    answered,        \* Bag of [task, r]: requests the backend has served, response in flight
    toggleOp         \* history: the pair of toggleFav calls on one place being followed

sessionVars == <<memberAuth, favs, commentsCache, searchHistory, selectedId, panelActive,
                 panelForm, pending, lastOp, tracking, staleKeys, ensuredSince, avgOp>>
geoVars == <<regionSelect, prefSelect, citySelect, geoScope, geoCircle, geoBoundaryLayer,
             geoBoundaryCache, mapLayers, mapView, geoPending, geoOp>>

markerVars == <<PLACES, markerPool, cluster, markerOp>>

filterVars == <<qValue, onlyFavs, onlyDiscount, boundsOnly, sortByDistance, currentLoc,
                selectionLayer, centerDot, radiusValue, mapShapes, selectedTags, placeD,
                filterOp>>

loadVars == <<rawSpot, spot>>

identityVars == <<providerUser, verifying, firebaseAuthState, identityOp>>
backendVars == <<backendFavs, answered, toggleOp>>
outerVars == <<loadVars, identityVars, backendVars>>

vars == <<sessionVars, geoVars, markerVars, filterVars, outerVars>>

\* ---- the state as a record, and its commit ----
Cur == [memberAuth |-> memberAuth, favs |-> favs, commentsCache |-> commentsCache,
        searchHistory |-> searchHistory, selectedId |-> selectedId,
        panelActive |-> panelActive, panelForm |-> panelForm, pending |-> pending,
        lastOp |-> lastOp, tracking |-> tracking,
        staleKeys |-> staleKeys, ensuredSince |-> ensuredSince, avgOp |-> avgOp,
        susp |-> FALSE,     \* the run reached an await on a request
        threw |-> FALSE,    \* an exception is propagating
        ret |-> <<>>]       \* value returned by the last call that returned a list

\* the end of a handler run; \E binds the state the run computed, evaluated once
SessionCommit(run) ==
    \E s \in {run} :
    /\ memberAuth' = s.memberAuth
    /\ favs' = s.favs
    /\ commentsCache' = s.commentsCache
    /\ searchHistory' = s.searchHistory
    /\ selectedId' = s.selectedId
    /\ panelActive' = s.panelActive
    /\ panelForm' = s.panelForm
    /\ pending' = s.pending
    /\ lastOp' = s.lastOp
    /\ tracking' = s.tracking
    /\ staleKeys' = IF s.tracking THEN s.staleKeys ELSE {}
    /\ ensuredSince' = IF s.tracking THEN s.ensuredSince ELSE {}
    /\ avgOp' = s.avgOp

Commit(s) == SessionCommit(s) /\ UNCHANGED <<geoVars, markerVars, filterVars, outerVars>>

\* op: the handler; id: its place; status: how the awaited request completed;
\* out: the branch the handler took; sent: the request it issued
OpRecord(op, id) == [op |-> op, id |-> id, status |-> "none", out |-> "none", sent |-> "none"]

\* start of a handler run
Begin(op, id) == [Cur EXCEPT !.lastOp = OpRecord(op, id)]

\* start of the run that continues after request t completed with response r
BeginResume(op, t, r) ==
    [Cur EXCEPT !.pending = @ (-) SetToBag({t}),
                !.lastOp = [OpRecord(op, t.id) EXCEPT !.status = r.status]]

\* ---- requests ----
Task(req, id, cont, arg) == [req |-> req, id |-> id, cont |-> cont, arg |-> arg, stale |-> FALSE]

fetch(s, t) ==
    [s EXCEPT !.pending = @ (+) SetToBag({t}), !.lastOp.sent = t.req, !.susp = TRUE]

authorizedFetch(s, t) ==
    IF s.memberAuth.idToken = NULL THEN [s EXCEPT !.threw = TRUE] ELSE fetch(s, t)

\* ---- response bodies ----
ErrorBody == [error |-> "error"]
ServerComments == {[body |-> <<"a">>, rating |-> 1]}
ServerQueries == {[query |-> <<"a">>]}

Rejected == [status |-> "reject", data |-> ErrorBody]   \* fetch rejects, or the body is not JSON
Failed == [status |-> "error", data |-> ErrorBody]      \* non-success status with a JSON body
Ok(data) == [status |-> "ok", data |-> data]

\* the ways request t can complete, for a member whose stored favorites are among P
Responses(t, P) ==
    {Rejected, Failed} \cup
    CASE t.req = "favList" -> {Ok([items |-> S]) : S \in SUBSET P}
      [] t.req = "comList" -> {Ok([comments |-> l]) : l \in SeqUpTo(ServerComments, MaxComments)}
      [] t.req = "histList" -> {Ok([queries |-> l]) : l \in SeqUpTo(ServerQueries, 1)}
      [] t.req = "comCreate" -> {Ok(t.arg)}
      [] OTHER -> {Ok([ok |-> TRUE])}

ItemsOf(data) == IF "items" \in DOMAIN data THEN data.items ELSE {}
CommentsOf(data) == IF "comments" \in DOMAIN data THEN data.comments ELSE <<>>
QueriesOf(data) == IF "queries" \in DOMAIN data THEN data.queries ELSE <<>>

\* ---- favorites (part_000 lines 272-315) ----
loadFavorites(s) ==
    IF ~s.memberAuth.isLoggedIn THEN [s EXCEPT !.favs = {}]
    ELSE LET s1 == authorizedFetch(s, Task("favList", NULL, "auth", NoInput))
         IN IF s1.threw THEN [s1 EXCEPT !.favs = {}, !.threw = FALSE] ELSE s1

\* after `await authorizedFetch('/api/favorites/list')`
loadFavorites_resume(s, r) ==
    IF r.status = "reject" THEN [s EXCEPT !.favs = {}]
    ELSE [s EXCEPT !.favs = ItemsOf(r.data)]

\* toggleFav as in the superseded localStorage copy of the page: flip first, no session check
toggleFav_flipFirst(s, id) ==
    LET s0 == [s EXCEPT !.favs = IF id \in @ THEN @ \ {id} ELSE @ \cup {id}]
        req == IF id \in s.favs THEN "favRemove" ELSE "favAdd"
        s1 == authorizedFetch(s0, Task(req, id, "click", NoInput))
    IN IF s1.threw THEN [s1 EXCEPT !.threw = FALSE, !.lastOp.out = "threw"]
       ELSE [s1 EXCEPT !.lastOp.out = req]

\* toggleFav with the membership flipped before the request is awaited
toggleFav_optimistic(s, id) ==
    IF ~s.memberAuth.isLoggedIn THEN [s EXCEPT !.lastOp.out = "guest"]
    ELSE LET req == IF id \in s.favs THEN "favRemove" ELSE "favAdd"
             s0 == [s EXCEPT !.favs = IF id \in @ THEN @ \ {id} ELSE @ \cup {id}]
             s1 == authorizedFetch(s0, Task(req, id, "click", NoInput))
         IN IF s1.threw THEN [s1 EXCEPT !.threw = FALSE, !.lastOp.out = "threw"]
            ELSE [s1 EXCEPT !.lastOp.out = req]

toggleFav(s, id) ==
    IF ~s.memberAuth.isLoggedIn THEN [s EXCEPT !.lastOp.out = "guest"]
    ELSE LET req == IF id \in s.favs THEN "favRemove" ELSE "favAdd"
             s1 == authorizedFetch(s, Task(req, id, "click", NoInput))
         IN IF s1.threw THEN [s1 EXCEPT !.threw = FALSE, !.lastOp.out = "threw"]
            ELSE [s1 EXCEPT !.lastOp.out = req]

\* after `await authorizedFetch('/api/favorites/remove' | '/api/favorites/add')`
toggleFav_resume(s, t, r) ==
    LET s0 == [s EXCEPT !.lastOp.out = t.req]
    IN IF r.status = "reject" THEN s0
       ELSE IF t.req = "favRemove" THEN [s0 EXCEPT !.favs = @ \ {t.id}]
       ELSE [s0 EXCEPT !.favs = @ \cup {t.id}]

\* ---- comments (part_000 lines 338-375) ----
ensureComments(s, placeId) ==
    LET s0 == [s EXCEPT !.ensuredSince = @ \cup {placeId}]
    IN IF ~s0.memberAuth.isLoggedIn
       THEN [s0 EXCEPT !.commentsCache = MapDelete(@, placeId),
                       !.staleKeys = @ \ {placeId},
                       !.lastOp.out = "guest", !.ret = <<>>]
       ELSE IF placeId \in DOMAIN s0.commentsCache
       THEN [s0 EXCEPT !.lastOp.out = "hit", !.ret = s0.commentsCache[placeId]]
       ELSE LET s1 == authorizedFetch(s0, Task("comList", placeId, "panel", NoInput))
            IN IF s1.threw
               THEN [s1 EXCEPT !.commentsCache = MapSet(@, placeId, <<>>),
                               !.lastOp.out = "threw", !.ret = <<>>,
                               !.threw = FALSE]
               ELSE [s1 EXCEPT !.lastOp.out = "fetch"]

\* after `await authorizedFetch('/api/comments?target_id=...')`
ensureComments_resume(s, t, r) ==
    LET items == IF r.status = "reject" THEN <<>> ELSE CommentsOf(r.data)
    IN [s EXCEPT !.commentsCache = MapSet(@, t.id, items),
                 !.staleKeys = IF t.stale THEN @ \cup {t.id} ELSE @ \ {t.id},
                 !.lastOp.out = IF items = <<>> THEN "empty" ELSE "list",
                 !.ret = items]

submitMemberComment(s, placeId, payload) ==
    authorizedFetch(s, Task("comCreate", placeId, "submit", payload))

\* submitMemberComment with push in place of unshift
submitMemberComment_resume_push(s, t, r) ==
    IF r.status = "reject" THEN [s EXCEPT !.threw = TRUE]
    ELSE LET existing == MapGetOr(s.commentsCache, t.id, <<>>)
         IN [s EXCEPT !.commentsCache = MapSet(@, t.id, existing \o <<r.data>>)]

\* after `await authorizedFetch('/api/comments', POST)`; throws when the body is not JSON
submitMemberComment_resume(s, t, r) ==
    IF r.status = "reject" THEN [s EXCEPT !.threw = TRUE]
    ELSE LET existing == MapGetOr(s.commentsCache, t.id, <<>>)
         IN [s EXCEPT !.commentsCache = MapSet(@, t.id, <<r.data>> \o existing),
                      !.staleKeys = IF t.id \in DOMAIN s.commentsCache THEN @
                                    ELSE IF t.stale THEN @ \cup {t.id} ELSE @]

\* ---- ratings (part_000 lines 377-382) ----
Ratings == {0, 3, 5}
NoAvg == [id |-> NULL, avg |-> [num |-> 0, den |-> 1], count |-> 0]

RECURSIVE Gcd(_, _)
Gcd(a, b) == IF b = 0 THEN a ELSE Gcd(b, a % b)

\* the number a / b, kept exact as a fraction in lowest terms
Quotient(a, b) == LET g == Gcd(a, b) IN [num |-> a \div g, den |-> b \div g]

\* arr.reduce((sum, c) => sum + (+c.rating || 0), 0); the ratings are numbers
RECURSIVE reduce(_, _)
reduce(arr, sum) == IF arr = <<>> THEN sum ELSE reduce(Tail(arr), sum + Head(arr).rating)

\* avgRating rounding the mean down to a whole number
avgRating_floor(s, placeId) ==
    LET arr == MapGetOr(s.commentsCache, placeId, <<>>)
        total == reduce(arr, 0)
    IN [s EXCEPT !.avgOp = IF Len(arr) = 0 THEN [NoAvg EXCEPT !.id = placeId]
                           ELSE [id |-> placeId,
                                 avg |-> [num |-> total \div Len(arr), den |-> 1],
                                 count |-> Len(arr)]]

avgRating(s, placeId) ==
    LET arr == MapGetOr(s.commentsCache, placeId, <<>>)
        total == reduce(arr, 0)
    IN [s EXCEPT !.avgOp = IF Len(arr) = 0 THEN [NoAvg EXCEPT !.id = placeId]
                           ELSE [id |-> placeId, avg |-> Quotient(total, Len(arr)),
                                 count |-> Len(arr)]]

\* ---- search history (part_000 lines 384-412) ----
\* refreshSearchHistory with neither the session check nor the token check
refreshSearchHistory_unguarded(s, cont) ==
    fetch(s, Task("histList", NULL, cont, NoInput))

refreshSearchHistory(s, cont) ==
    IF ~s.memberAuth.isLoggedIn THEN [s EXCEPT !.searchHistory = <<>>]
    ELSE LET s1 == authorizedFetch(s, Task("histList", NULL, cont, NoInput))
         IN IF s1.threw THEN [s1 EXCEPT !.searchHistory = <<>>, !.threw = FALSE] ELSE s1

\* after `await authorizedFetch('/api/search-history')`
refreshSearchHistory_resume(s, r) ==
    IF r.status = "reject" THEN [s EXCEPT !.searchHistory = <<>>]
    ELSE [s EXCEPT !.searchHistory = QueriesOf(r.data)]

recordSearchQuery(s, query) ==
    IF ~s.memberAuth.isLoggedIn \/ query = <<>> THEN [s EXCEPT !.lastOp.out = "skip"]
    ELSE LET s1 == authorizedFetch(s, Task("histPost", NULL, "record", NoInput))
         IN IF s1.threw THEN [s1 EXCEPT !.threw = FALSE, !.lastOp.out = "threw"]
            ELSE [s1 EXCEPT !.lastOp.out = "post"]

\* after `await authorizedFetch('/api/search-history', POST)`
recordSearchQuery_resume(s, r) ==
    IF r.status = "reject" THEN s ELSE refreshSearchHistory(s, "record")

\* ---- detail panel (part_000 lines 688-835) ----
\* the synchronous rest of openPanelFor: the panel content and its comment form
openPanelFor_render(s, placeId) ==
    [s EXCEPT !.panelForm = [id |-> placeId, disabled |-> ~s.memberAuth.isLoggedIn],
              !.panelActive = TRUE]

openPanelFor(s, placeId) ==
    LET s0 == [s EXCEPT !.selectedId = placeId]
    IN IF s0.memberAuth.isLoggedIn
       THEN LET s1 == ensureComments(s0, placeId)
            IN IF s1.susp THEN s1 ELSE openPanelFor_render(s1, placeId)
       ELSE openPanelFor_render([s0 EXCEPT !.commentsCache = MapDelete(@, placeId),
                                           !.staleKeys = @ \ {placeId}], placeId)

\* the submit listener reading the textarea without trim()
panelCommentForm_submit_noTrim(s, placeId, in) ==
    IF ~s.memberAuth.isLoggedIn THEN [s EXCEPT !.lastOp.out = "guest"]
    ELSE LET text == in.body
             rating == in.rating
         IN IF text = <<>> THEN [s EXCEPT !.lastOp.out = "noText"]
            ELSE IF ~(rating >= 1 /\ rating <= 5) THEN [s EXCEPT !.lastOp.out = "noRating"]
            ELSE LET s1 == submitMemberComment(s, placeId, [body |-> text, rating |-> rating])
                 IN IF s1.threw THEN [s1 EXCEPT !.threw = FALSE, !.lastOp.out = "threw"]
                    ELSE [s1 EXCEPT !.lastOp.out = "create"]

\* submit listener of #panelCommentForm
panelCommentForm_submit(s, placeId, in) ==
    IF ~s.memberAuth.isLoggedIn THEN [s EXCEPT !.lastOp.out = "guest"]
    ELSE LET text == Trim(in.body)
             rating == in.rating
         IN IF text = <<>> THEN [s EXCEPT !.lastOp.out = "noText"]
            ELSE IF ~(rating >= 1 /\ rating <= 5) THEN [s EXCEPT !.lastOp.out = "noRating"]
            ELSE LET s1 == submitMemberComment(s, placeId, [body |-> text, rating |-> rating])
                 IN IF s1.threw THEN [s1 EXCEPT !.threw = FALSE, !.lastOp.out = "threw"]
                    ELSE [s1 EXCEPT !.lastOp.out = "create"]

\* the rest of the submit listener after `await submitMemberComment(...)`
panelCommentForm_submit_resume(s, t, r) ==
    LET s1 == submitMemberComment_resume(s, t, r)
    IN IF s1.threw THEN [s1 EXCEPT !.threw = FALSE] ELSE s1

\* ---- authentication transition (part_000 lines 867-893) ----
\* history: the comment requests in flight at an auth event are older than the session
Older(t) == IF t.req \in {"comList", "comCreate"} THEN [t EXCEPT !.stale = TRUE] ELSE t
MarkStale(B) ==
    LET S == {Older(t) : t \in DOMAIN B}
        n(u) == IF u \in DOMAIN B THEN B[u] ELSE 0
    IN [u \in S |-> IF u.stale THEN n(u) + n([u EXCEPT !.stale = FALSE]) ELSE n(u)]
OlderSession(s) == IF s.tracking THEN [s EXCEPT !.pending = MarkStale(@)] ELSE s

\* from syncFavFilterAvailability() to the end of the listener
authListener_afterHistory(s) ==
    IF s.selectedId # NULL /\ s.panelActive /\ s.selectedId \in Places
    THEN openPanelFor(s, s.selectedId)
    ELSE s

\* from `await refreshSearchHistory()` on
authListener_afterFavorites(s) ==
    LET s1 == refreshSearchHistory(s, "auth")
    IN IF s1.susp THEN s1 ELSE authListener_afterHistory(s1)

\* the listener clearing the comment cache only when the member logs out
authListener_clearOnLogout(s, detail) ==
    LET user == detail.user
        idToken == detail.idToken
        s0 == [OlderSession(s) EXCEPT
                   !.memberAuth = [user |-> user, idToken |-> idToken,
                                   isLoggedIn |-> (user # NULL /\ idToken # NULL)]]
    IN IF s0.memberAuth.isLoggedIn
       THEN LET s1 == loadFavorites(s0)
            IN IF s1.susp THEN s1 ELSE authListener_afterFavorites(s1)
       ELSE authListener_afterHistory([s0 EXCEPT !.commentsCache = <<>>, !.staleKeys = {},
                                                 !.ensuredSince = {},
                                                 !.favs = {}, !.searchHistory = <<>>])

authListener(s, detail) ==
    LET user == detail.user
        idToken == detail.idToken
        s0 == [OlderSession(s) EXCEPT
                   !.memberAuth = [user |-> user, idToken |-> idToken,
                                   isLoggedIn |-> (user # NULL /\ idToken # NULL)],
                   !.commentsCache = <<>>,
                   !.staleKeys = {},
                   !.ensuredSince = {}]
    IN IF s0.memberAuth.isLoggedIn
       THEN LET s1 == loadFavorites(s0)
            IN IF s1.susp THEN s1 ELSE authListener_afterFavorites(s1)
       ELSE authListener_afterHistory([s0 EXCEPT !.favs = {}, !.searchHistory = <<>>])

\* details dispatched by emitAuthState (static/js/firebase-auth.js)
\* the detail emitAuthState dispatches (firebase-auth.js lines 53-62): idToken || null
emitAuthState(user, idToken) ==
    [user |-> user, idToken |-> IF idToken = "" THEN NULL ELSE idToken]
AuthDetails == {emitAuthState(NULL, NULL)} \cup {emitAuthState(u, TokenOf(u)) : u \in Users}

\* ---- geographic scope (part_000 lines 100-249) ----
MaxGeoPending == 2    \* boundary requests in flight at the same time
MaxLayers == 2        \* boundary layers on the map at the same time

EntireArea == "all"   \* the option of #citySelect that stands for the whole prefecture
CityZoom == 13
PrefZoom == 10
RegionZoom == 6

\* the tree served by /api/geo; an absent number is 0, an absent bbox is <<>>
EmptyNode == [center |-> NULL, radius |-> 0, zoom |-> 0, bbox |-> <<>>]
GEO_TREE ==
    [r1 |-> [center |-> "ctr_r1", radius |-> 0, zoom |-> 0, bbox |-> <<1, 2, 3, 4>>,
             prefs |->
               [f1 |-> [center |-> "ctr_f1", radius |-> 5, zoom |-> 0, bbox |-> <<>>,
                        cities |->
                          [c1 |-> [center |-> "ctr_c1", radius |-> 3, zoom |-> 0,
                                   bbox |-> <<1, 2, 3, 4>>],
                           c2 |-> [center |-> NULL, radius |-> 0, zoom |-> 0,
                                   bbox |-> <<>>]]],
                f2 |-> [center |-> NULL, radius |-> 0, zoom |-> 0, bbox |-> <<1, 2, 3>>,
                        cities |-> <<>>]]],
     r2 |-> [center |-> "ctr_r2", radius |-> 9, zoom |-> 0, bbox |-> <<>>,
             prefs |-> <<>>]]

RegionNode(regionKey) ==
    IF regionKey \in DOMAIN GEO_TREE THEN GEO_TREE[regionKey]
    ELSE EmptyNode @@ [prefs |-> <<>>]
PrefsOf(regionKey) == RegionNode(regionKey).prefs
HasPref(regionKey, prefKey) == prefKey \in DOMAIN PrefsOf(regionKey)
CitiesOf(regionKey, prefKey) ==
    IF HasPref(regionKey, prefKey) THEN PrefsOf(regionKey)[prefKey].cities ELSE <<>>

\* a boundary: the geojson of (pref, city) and whether its bounds are valid; NoBoundary is null
NoBoundary == [pref |-> NULL, city |-> NULL, valid |-> FALSE]
GeoJson(prefKey, cityKey, valid) == [pref |-> prefKey, city |-> cityKey, valid |-> valid]
NoCircle == [center |-> NULL, radius |-> 0]

\* what /api/geo-boundary holds: no polygon for c1, a polygon without valid bounds for f2
ServerBoundary(prefKey, cityKey) ==
    IF cityKey = "c1" THEN NoBoundary
    ELSE GeoJson(prefKey, cityKey, prefKey # "f2")

\* `${prefKey}::${cityKey || ''}`
CacheKey(prefKey, cityKey) == <<prefKey, IF cityKey = NULL THEN "" ELSE cityKey>>
NoKey == <<>>

NoScope == [level |-> NULL, key |-> NULL, prefKey |-> NULL, cityKey |-> NULL,
            center |-> NULL, radius |-> 0, zoom |-> 0, bbox |-> <<>>]
DefaultView == [kind |-> "default", scope |-> NULL, boundary |-> NoBoundary]

GeoOpRecord(op) ==
    [op |-> op, status |-> "none", sent |-> NoKey, done |-> FALSE, fit |-> "none",
     got |-> NoBoundary, call |-> NoKey]

GCur == [regionSelect |-> regionSelect, prefSelect |-> prefSelect, citySelect |-> citySelect,
         geoScope |-> geoScope, geoCircle |-> geoCircle,
         geoBoundaryLayer |-> geoBoundaryLayer, geoBoundaryCache |-> geoBoundaryCache,
         mapLayers |-> mapLayers, mapView |-> mapView, geoPending |-> geoPending,
         geoOp |-> geoOp,
         susp |-> FALSE,          \* the run reached an await on a request
         ret |-> NoBoundary]      \* value returned by the last fetchGeoBoundary

GCommit(g) ==
    /\ regionSelect' = g.regionSelect
    /\ prefSelect' = g.prefSelect
    /\ citySelect' = g.citySelect
    /\ geoScope' = g.geoScope
    /\ geoCircle' = g.geoCircle
    /\ geoBoundaryLayer' = g.geoBoundaryLayer
    /\ geoBoundaryCache' = g.geoBoundaryCache
    /\ mapLayers' = g.mapLayers
    /\ mapView' = g.mapView
    /\ geoPending' = g.geoPending
    /\ geoOp' = g.geoOp

GBegin(op) == [GCur EXCEPT !.geoOp = GeoOpRecord(op)]

\* value || null of a <select>
OrNull(v) == IF v = "" THEN NULL ELSE v
\* zoom || default
OrZoom(z, d) == IF z = 0 THEN d ELSE z

\* populatePrefs leaving #citySelect as it is
populatePrefs_keepCity(g, regionKey) ==
    [g EXCEPT !.prefSelect = [value |-> "", options |-> DOMAIN PrefsOf(regionKey)]]

populatePrefs(g, regionKey) ==
    [g EXCEPT !.prefSelect = [value |-> "", options |-> DOMAIN PrefsOf(regionKey)],
              !.citySelect = [value |-> "", options |-> {}]]

populateCities(g, regionKey, prefKey) ==
    LET cityKeys == DOMAIN CitiesOf(regionKey, prefKey)
    IN [g EXCEPT !.citySelect =
            [value |-> "",
             options |-> IF cityKeys # {} THEN cityKeys \cup {EntireArea} ELSE {}]]

\* drawGeoScope trying the bounding box before the boundary polygon
drawGeoScope_finish_bboxFirst(g, boundaryGeoJson) ==
    LET g1 == [g EXCEPT !.geoOp.done = TRUE, !.geoOp.got = boundaryGeoJson]
        g2 == IF boundaryGeoJson # NoBoundary
              THEN [g1 EXCEPT !.geoBoundaryLayer = boundaryGeoJson,
                              !.mapLayers = @ (+) SetToBag({boundaryGeoJson})]
              ELSE g1
        scope == g.geoScope
    IN IF Len(scope.bbox) = 4
       THEN [g2 EXCEPT !.mapView = [kind |-> "bbox", scope |-> scope.key,
                                    boundary |-> NoBoundary],
                       !.geoOp.fit = "bbox"]
       ELSE IF boundaryGeoJson # NoBoundary /\ boundaryGeoJson.valid
       THEN [g2 EXCEPT !.mapView = [kind |-> "boundary", scope |-> scope.key,
                                    boundary |-> boundaryGeoJson],
                       !.geoOp.fit = "boundary"]
       ELSE IF scope.center # NULL /\ scope.zoom # 0
       THEN [g2 EXCEPT !.mapView = [kind |-> "center", scope |-> scope.key,
                                    boundary |-> NoBoundary],
                       !.geoOp.fit = "center"]
       ELSE g2

\* lines 204-236 from `if (boundaryGeoJson)` to the end
drawGeoScope_finish(g, boundaryGeoJson) ==
    LET g1 == [g EXCEPT !.geoOp.done = TRUE, !.geoOp.got = boundaryGeoJson]
        g2 == IF boundaryGeoJson # NoBoundary
              THEN [g1 EXCEPT !.geoBoundaryLayer = boundaryGeoJson,
                              !.mapLayers = @ (+) SetToBag({boundaryGeoJson})]
              ELSE g1
        scope == g.geoScope
        circle == IF scope.center # NULL /\ scope.radius # 0
                  THEN [center |-> scope.center, radius |-> scope.radius]
                  ELSE g2.geoCircle
    IN IF boundaryGeoJson # NoBoundary /\ boundaryGeoJson.valid
       THEN [g2 EXCEPT !.mapView = [kind |-> "boundary", scope |-> scope.key,
                                    boundary |-> boundaryGeoJson],
                       !.geoOp.fit = "boundary"]
       ELSE IF Len(scope.bbox) = 4
       THEN [g2 EXCEPT !.mapView = [kind |-> "bbox", scope |-> scope.key,
                                    boundary |-> NoBoundary],
                       !.geoOp.fit = "bbox",
                       !.geoCircle = circle]
       ELSE IF scope.center # NULL /\ scope.zoom # 0
       THEN [g2 EXCEPT !.mapView = [kind |-> "center", scope |-> scope.key,
                                    boundary |-> NoBoundary],
                       !.geoOp.fit = "center",
                       !.geoCircle = circle]
       ELSE [g2 EXCEPT !.geoCircle = circle]

\* ---- boundary requests (lines 183-202) ----
GeoTask(prefKey, cityKey, stage) == [pref |-> prefKey, city |-> cityKey, stage |-> stage]
GeoRejected == [status |-> "reject", data |-> NoBoundary]   \* fetch rejects or !res.ok
GeoOk(geojson) == [status |-> "ok", data |-> geojson]
GeoResponses(t) == {GeoRejected, GeoOk(ServerBoundary(t.pref, t.city))}

fetchGeoBoundary(g, prefKey, cityKey, stage) ==
    IF prefKey = NULL THEN [g EXCEPT !.ret = NoBoundary]
    ELSE LET cacheKey == CacheKey(prefKey, cityKey)
         IN IF cacheKey \in DOMAIN g.geoBoundaryCache
            THEN [g EXCEPT !.ret = g.geoBoundaryCache[cacheKey]]
            ELSE [g EXCEPT !.geoPending = @ (+) SetToBag({GeoTask(prefKey, cityKey, stage)}),
                           !.geoOp.sent = cacheKey,
                           !.susp = TRUE]

\* fetchGeoBoundary dropping the answer of a request whose scope is no longer the current one
fetchGeoBoundary_resume_discardStale(g, t, r) ==
    LET cacheKey == CacheKey(t.pref, t.city)
        geojson == IF r.status = "ok" THEN r.data ELSE NoBoundary
        current == t.pref = g.geoScope.prefKey
                   /\ (t.stage = "retry" \/ t.city = g.geoScope.cityKey)
    IN [g EXCEPT !.geoBoundaryCache = MapSet(@, cacheKey, geojson),
                 !.ret = IF current THEN geojson ELSE NoBoundary]

\* after `await fetch('/api/geo-boundary?...')`
fetchGeoBoundary_resume(g, t, r) ==
    LET cacheKey == CacheKey(t.pref, t.city)
        geojson == IF r.status = "ok" THEN r.data ELSE NoBoundary
    IN [g EXCEPT !.geoBoundaryCache = MapSet(@, cacheKey, geojson), !.ret = geojson]

\* line 212, reading the scope that is current when the first lookup has answered
drawGeoScope_afterFirst(g, boundaryGeoJson) ==
    IF boundaryGeoJson = NoBoundary /\ g.geoScope.cityKey # NULL
    THEN LET g1 == fetchGeoBoundary(g, g.geoScope.prefKey, NULL, "retry")
         IN IF g1.susp THEN g1 ELSE drawGeoScope_finish(g1, g1.ret)
    ELSE drawGeoScope_finish(g, boundaryGeoJson)

drawGeoScope(g) ==
    LET g0 == [g EXCEPT !.geoCircle = NoCircle,
                        !.mapLayers = @ (-) SetToBag({g.geoBoundaryLayer}),
                        !.geoBoundaryLayer = NoBoundary,
                        !.geoOp.call = CacheKey(g.geoScope.prefKey, g.geoScope.cityKey)]
    IN IF g0.geoScope.prefKey # NULL
       THEN LET g1 == fetchGeoBoundary(g0, g0.geoScope.prefKey, g0.geoScope.cityKey, "first")
            IN IF g1.susp THEN g1 ELSE drawGeoScope_afterFirst(g1, g1.ret)
       ELSE drawGeoScope_finish(g0, NoBoundary)

\* setGeoScopeByUI taking the entire-area option for a city
setGeoScopeByUI_entireAreaAsCity(g) ==
    LET regionKey == OrNull(g.regionSelect)
        prefKey == OrNull(g.prefSelect.value)
        cityKey == OrNull(g.citySelect.value)
        scope ==
            IF cityKey # NULL /\ regionKey # NULL /\ prefKey # NULL
            THEN LET cities == CitiesOf(regionKey, prefKey)
                     c == IF cityKey \in DOMAIN cities THEN cities[cityKey] ELSE EmptyNode
                 IN [level |-> "city", key |-> cityKey, prefKey |-> prefKey,
                     cityKey |-> cityKey, center |-> c.center, radius |-> c.radius,
                     zoom |-> OrZoom(c.zoom, CityZoom), bbox |-> c.bbox]
            ELSE IF prefKey # NULL /\ regionKey # NULL
            THEN LET p == IF HasPref(regionKey, prefKey) THEN PrefsOf(regionKey)[prefKey]
                          ELSE EmptyNode
                 IN [level |-> "pref", key |-> prefKey, prefKey |-> prefKey,
                     cityKey |-> NULL, center |-> p.center, radius |-> p.radius,
                     zoom |-> OrZoom(p.zoom, PrefZoom), bbox |-> p.bbox]
            ELSE IF regionKey # NULL
            THEN LET r == RegionNode(regionKey)
                 IN [level |-> "region", key |-> regionKey, prefKey |-> NULL,
                     cityKey |-> NULL, center |-> r.center, radius |-> r.radius,
                     zoom |-> OrZoom(r.zoom, RegionZoom), bbox |-> r.bbox]
            ELSE NoScope
    IN drawGeoScope([g EXCEPT !.geoScope = scope])

setGeoScopeByUI(g) ==
    LET regionKey == OrNull(g.regionSelect)
        prefKey == OrNull(g.prefSelect.value)
        rawCity == OrNull(g.citySelect.value)
        cityKey == IF rawCity # NULL /\ rawCity # EntireArea THEN rawCity ELSE NULL
        scope ==
            IF cityKey # NULL /\ regionKey # NULL /\ prefKey # NULL
            THEN LET cities == CitiesOf(regionKey, prefKey)
                     c == IF cityKey \in DOMAIN cities THEN cities[cityKey] ELSE EmptyNode
                 IN [level |-> "city", key |-> cityKey, prefKey |-> prefKey,
                     cityKey |-> cityKey, center |-> c.center, radius |-> c.radius,
                     zoom |-> OrZoom(c.zoom, CityZoom), bbox |-> c.bbox]
            ELSE IF prefKey # NULL /\ regionKey # NULL
            THEN LET p == IF HasPref(regionKey, prefKey) THEN PrefsOf(regionKey)[prefKey]
                          ELSE EmptyNode
                 IN [level |-> "pref", key |-> prefKey, prefKey |-> prefKey,
                     cityKey |-> NULL, center |-> p.center, radius |-> p.radius,
                     zoom |-> OrZoom(p.zoom, PrefZoom), bbox |-> p.bbox]
            ELSE IF regionKey # NULL
            THEN LET r == RegionNode(regionKey)
                 IN [level |-> "region", key |-> regionKey, prefKey |-> NULL,
                     cityKey |-> NULL, center |-> r.center, radius |-> r.radius,
                     zoom |-> OrZoom(r.zoom, RegionZoom), bbox |-> r.bbox]
            ELSE NoScope
    IN drawGeoScope([g EXCEPT !.geoScope = scope])

\* the clear listener resetting the level and key of the scope only
clearGeo_levelOnly(g) ==
    [g EXCEPT !.regionSelect = "",
              !.prefSelect = [value |-> "", options |-> {}],
              !.citySelect = [value |-> "", options |-> {}],
              !.geoScope = [@ EXCEPT !.level = NULL, !.key = NULL],
              !.geoCircle = NoCircle,
              !.mapLayers = @ (-) SetToBag({g.geoBoundaryLayer}),
              !.geoBoundaryLayer = NoBoundary]

\* click listener of #clearGeo (lines 238-246)
clearGeo(g) ==
    [g EXCEPT !.regionSelect = "",
              !.prefSelect = [value |-> "", options |-> {}],
              !.citySelect = [value |-> "", options |-> {}],
              !.geoScope = NoScope,
              !.geoCircle = NoCircle,
              !.mapLayers = @ (-) SetToBag({g.geoBoundaryLayer}),
              !.geoBoundaryLayer = NoBoundary]

\* the geographic part of the click listener of #resetBtn (lines 971-988)
resetBtn_geo(g) ==
    [clearGeo(g) EXCEPT !.mapView = DefaultView]

GeoInit ==
    /\ regionSelect = ""
    /\ prefSelect = [value |-> "", options |-> {}]
    /\ citySelect = [value |-> "", options |-> {}]
    /\ geoScope = NoScope
    /\ geoCircle = NoCircle
    /\ geoBoundaryLayer = NoBoundary
    /\ geoBoundaryCache = <<>>
    /\ mapLayers = EmptyBag
    /\ mapView = DefaultView
    /\ geoPending = EmptyBag
    /\ geoOp = GeoOpRecord("init")

\* ---- markers and the result list (part_000 lines 441-486, 542-664) ----
\* the spots served by /api/spots, by id; p2 and p5 have no coordinates
RawSpots == <<"p1", "p2", "p3", "p4", "p5", "p6">>
hasCoords(id) == id \notin {"p2", "p5"}
\* the places within the guide circle of a scope center
WithinRadius(center) ==
    CASE center = "ctr_f1" -> {"p1", "p3"}
      [] center = "ctr_c1" -> {"p1"}
      [] center = "ctr_r2" -> {"p4", "p6"}
      [] OTHER -> {}

Range(seq) == {seq[i] : i \in DOMAIN seq}

MCur == [PLACES |-> PLACES, markerPool |-> markerPool, cluster |-> cluster,
         markerOp |-> markerOp]

MCommit(run) ==
    \E m \in {run} :
    /\ PLACES' = m.PLACES
    /\ markerPool' = m.markerPool
    /\ cluster' = m.cluster
    /\ markerOp' = m.markerOp

\* syncMarkers issuing an add instruction for every id it is given
syncMarkers_addAll(m, keepIds) ==
    LET current == m.cluster
        toAdd == keepIds \cap m.markerPool
        toRemove == (current \ keepIds) \cap m.markerPool
    IN [m EXCEPT !.cluster = (current \cup toAdd) \ toRemove,
                 !.markerOp.keep = keepIds,
                 !.markerOp.added = toAdd,
                 !.markerOp.removed = toRemove]

\* syncMarkers without its second loop
syncMarkers_noRemove(m, keepIds) ==
    LET current == m.cluster
        toAdd == (keepIds \ current) \cap m.markerPool
    IN [m EXCEPT !.cluster = current \cup toAdd,
                 !.markerOp.keep = keepIds,
                 !.markerOp.added = toAdd,
                 !.markerOp.removed = {}]

syncMarkers(m, keepIds) ==
    LET current == m.cluster
        toAdd == (keepIds \ current) \cap m.markerPool
        toRemove == (current \ keepIds) \cap m.markerPool
    IN [m EXCEPT !.cluster = (current \cup toAdd) \ toRemove,
                 !.markerOp.keep = keepIds,
                 !.markerOp.added = toAdd,
                 !.markerOp.removed = toRemove]

\* render handing every listed id to syncMarkers
render_allIds(m, list) ==
    syncMarkers(m, Range(list))

\* lines 590-652; the cards do not take part in the model
render(m, list) ==
    LET keep == {id \in Range(list) : hasCoords(id)}
    IN [syncMarkers(m, keep) EXCEPT !.markerOp.list = list]

inGeoScope(id, scope) ==
    /\ hasCoords(id)
    /\ (scope.center = NULL \/ scope.radius = 0 \/ id \in WithinRadius(scope.center))

\* filterPlaces: the geo scope filter, then the other filters, which let the ids in pass through
filterPlaces(m, scope, pass) ==
    SelectSeq(m.PLACES, LAMBDA id : inGeoScope(id, scope) /\ id \in pass)

applyFilters(m, scope, pass) ==
    render(m, filterPlaces(m, scope, pass))

\* the marker state at the start of a handler run that ends with a syncMarkers call
MBegin(op) == [MCur EXCEPT !.markerOp.op = op]

\* bootstrap: initMap and render(PLACES), with the spots loaded or not
MarkerInit(loaded) ==
    LET list == IF loaded THEN RawSpots ELSE <<>>
        pool == {id \in Range(list) : hasCoords(id)}
    IN /\ PLACES = list
       /\ markerPool = pool
       /\ cluster = pool
       /\ markerOp = [op |-> "bootstrap", keep |-> pool, added |-> {}, removed |-> {},
                      list |-> list]

\* ---- the filter pipeline (part_000 lines 255-256, 529-588, 655-664) ----
\* strings that are searched are sequences of one-character strings
Lower(c) == CASE c = "A" -> "a" [] c = "B" -> "b" [] OTHER -> c
toLowerCase(str) == [i \in DOMAIN str |-> Lower(str[i])]
Separators == {"|", ","}      \* the class [|,、] of norm
Whitespace == {" ", "\t"}     \* the class \s of norm
NUL == "\\0"                  \* the separator of the haystack, '\u0000'

\* String.prototype.includes
Includes(hay, needle) ==
    \E i \in 0..(Len(hay) - Len(needle)) : SubSeq(hay, i + 1, i + Len(needle)) = needle

\* replace(/[|,、]/g,' ')
ReplaceSeparators(str) == [i \in DOMAIN str |-> IF str[i] \in Separators THEN " " ELSE str[i]]

\* replace(/\s+/g,' ')
RECURSIVE CollapseWhitespace(_)
CollapseWhitespace(str) ==
    IF str = <<>> THEN <<>>
    ELSE IF Head(str) \in Whitespace
    THEN IF Len(str) > 1 /\ str[2] \in Whitespace THEN CollapseWhitespace(Tail(str))
         ELSE <<" ">> \o CollapseWhitespace(Tail(str))
    ELSE <<Head(str)>> \o CollapseWhitespace(Tail(str))

\* line 255
norm(str) == toLowerCase(Trim(CollapseWhitespace(ReplaceSeparators(str))))

\* split(' ')
RECURSIVE Split(_, _)
Split(str, word) ==
    IF str = <<>> THEN <<word>>
    ELSE IF Head(str) = " " THEN <<word>> \o Split(Tail(str), <<>>)
    ELSE Split(Tail(str), Append(word, Head(str)))

\* line 256
tokens(query) == SelectSeq(Split(norm(query), <<>>), LAMBDA t : t # <<>>)

\* Array.prototype.join
RECURSIVE Join(_, _)
Join(strs, sep) ==
    IF strs = <<>> THEN <<>>
    ELSE IF Len(strs) = 1 THEN strs[1]
    ELSE strs[1] \o sep \o Join(Tail(strs), sep)

\* the characters of a label or key
Chars(label) ==
    CASE label = "r1" -> <<"r", "1">>
      [] label = "r2" -> <<"r", "2">>
      [] label = "f1" -> <<"f", "1">>
      [] label = "f2" -> <<"f", "2">>
      [] label = "c1" -> <<"c", "1">>
      [] label = "c2" -> <<"c", "2">>
      [] label = "t1" -> <<"t", "1">>
      [] label = "t2" -> <<"t", "2">>
      [] OTHER -> <<>>

\* the place objects normalizeSpot makes of RawSpots (lines 68-97); student.available is
\* false for every place (line 96)
Spot(id) ==
    CASE id = "p1" -> [region |-> "r1", pref |-> "f1", city |-> "c1", address |-> <<"x">>,
                       name |-> <<"a", "b">>, desc |-> <<>>, tags |-> <<"t1">>,
                       student |-> FALSE]
      [] id = "p2" -> [region |-> "r1", pref |-> "f1", city |-> "", address |-> <<>>,
                       name |-> <<"A">>, desc |-> <<"b">>, tags |-> <<>>,
                       student |-> FALSE]
      [] id = "p3" -> [region |-> "", pref |-> "", city |-> "",
                       address |-> <<"r", "1", "f", "1", "c", "1">>,
                       name |-> <<"B">>, desc |-> <<>>, tags |-> <<"t2">>,
                       student |-> FALSE]
      [] id = "p4" -> [region |-> "r2", pref |-> "", city |-> "", address |-> <<"a">>,
                       name |-> <<"b", "a">>, desc |-> <<>>, tags |-> <<"t2">>,
                       student |-> FALSE]
      [] id = "p5" -> [region |-> "r2", pref |-> "", city |-> "", address |-> <<>>,
                       name |-> <<"a", "b">>, desc |-> <<>>, tags |-> <<"t1">>,
                       student |-> FALSE]
      [] OTHER     -> [region |-> "r1", pref |-> "f1", city |-> "c2", address |-> <<"B">>,
                       name |-> <<"a">>, desc |-> <<"A", "b">>, tags |-> <<"t1", "t2">>,
                       student |-> FALSE]

\* the located positions: Here is at the coordinates of p1
Here == "at_p1"
There == "at_sea"

\* haversineKm between a located position and a place with coordinates, in km
haversineKm(loc, id) ==
    IF loc = Here
    THEN CASE id = "p1" -> 0 [] id = "p3" -> 5 [] id = "p4" -> 9 [] OTHER -> 7
    ELSE CASE id = "p1" -> 8 [] id = "p3" -> 3 [] id = "p4" -> 3 [] OTHER -> 1

Infinity == 2000000000    \* above every distance and above the 1e9 of the comparator
Unranked == 1000000000    \* the 1e9 the comparator takes for a falsy _d (line 585)
NoD == -1                 \* the place object has no _d property

\* the selection drawn on the map: a circle around a clicked point or a dragged rectangle
NoSelection == [kind |-> "none", area |-> NULL, radius |-> 0]
Circle(latlng, r) == [kind |-> "circle", area |-> latlng, radius |-> r]
Rectangle(bounds) == [kind |-> "rect", area |-> bounds, radius |-> 0]
\* the marker placeCircleAt puts at the centre of the circle (line 474)
NoDot == [kind |-> "none", area |-> NULL, radius |-> 0]
CircleMarker(latlng) == [kind |-> "dot", area |-> latlng, radius |-> 5]
DefaultRadius == 600     \* the radius placeCircleAt takes for an empty or zero #radius
RadiusValues == {0, 300, DefaultRadius}
\* the places with coordinates inside an area of the map
Inside(area) ==
    CASE area = "pt1" -> {"p1", "p4"}
      [] area = "box1" -> {"p3", "p4", "p6"}
      [] area = Here -> {"p1"}
      [] OTHER -> {}

\* the places with coordinates the selection contains: distanceTo(centre) <= getRadius()
\* for a circle, getBounds().contains for a rectangle (lines 533-534)
Within(selection) ==
    IF selection.kind # "circle" \/ selection.radius >= DefaultRadius
    THEN Inside(selection.area)
    ELSE IF selection.radius = 0 THEN Inside(selection.area) \cap Inside(Here)
    ELSE Inside(selection.area) \ {"p4"}

inSelection(id, selection) ==
    /\ hasCoords(id)
    /\ (selection.kind = "none" \/ id \in Within(selection))

\* map.getBounds().contains: the places with coordinates inside the viewport
InBounds(view) ==
    CASE view.kind = "default" -> {id \in Range(RawSpots) : hasCoords(id)}
      [] view.kind = "pan" -> {"p3", "p4"}
      [] view.kind = "loc" -> Inside(view.scope)
      [] OTHER -> {"p1", "p3", "p6"}

\* isFav looking at the favorites only
isFav_anyone(f, id) == id \in f.favs

\* line 272
isFav(f, id) == f.memberAuth.isLoggedIn /\ id \in f.favs

\* the state filterPlaces reads and writes
FCur == [PLACES |-> PLACES, geoScope |-> geoScope, mapView |-> mapView,
         memberAuth |-> memberAuth, favs |-> favs,
         qValue |-> qValue, onlyFavs |-> onlyFavs, onlyDiscount |-> onlyDiscount,
         boundsOnly |-> boundsOnly, sortByDistance |-> sortByDistance,
         currentLoc |-> currentLoc, selectionLayer |-> selectionLayer,
         centerDot |-> centerDot, radiusValue |-> radiusValue, mapShapes |-> mapShapes,
         selectedTags |-> selectedTags, placeD |-> placeD, filterOp |-> filterOp,
         ret |-> <<>>]      \* the list filterPlaces returns

\* op: the handler; flag: #onlyFavs was checked when its run began; ran: it called
\* filterPlaces; query, opts: the arguments of that call; out: the list returned;
\* ds: the _d of the places of that list, in its order
FilterOpRecord(op) ==
    [op |-> op, flag |-> onlyFavs.checked, ran |-> FALSE, query |-> <<>>,
     opts |-> [onlyFavs |-> FALSE, onlyDiscount |-> FALSE, boundsOnly |-> FALSE,
               sortByDistance |-> FALSE],
     out |-> <<>>, ds |-> <<>>]

FBegin(op) == [FCur EXCEPT !.filterOp = FilterOpRecord(op)]

\* the text stage of filterPlaces (lines 567-580)
Hay(id) ==
    LET p == Spot(id)
    IN toLowerCase(Join(<<p.name, p.desc, p.address, Chars(p.pref), Chars(p.city),
                          Chars(p.region)>>
                        \o [i \in DOMAIN p.tags |-> Chars(p.tags[i])], <<NUL>>))

\* the text stage joining the fields without a separator
TextMatch_noSeparator(id, ts) ==
    LET p == Spot(id)
        hay == toLowerCase(Join(<<p.name, p.desc, p.address, Chars(p.pref), Chars(p.city),
                                  Chars(p.region)>>
                                \o [i \in DOMAIN p.tags |-> Chars(p.tags[i])], <<>>))
    IN \A i \in DOMAIN ts : Includes(hay, ts[i])

TextMatch(id, ts) == \A i \in DOMAIN ts : Includes(Hay(id), ts[i])

\* the label stages of filterPlaces (lines 546-560)
LabelMatch(id, scope) ==
    LET p == Spot(id)
    IN /\ (scope.level = "region" /\ scope.key # NULL) => p.region = scope.key
       /\ scope.prefKey # NULL =>
              (p.pref = scope.prefKey \/ Includes(p.address, Chars(scope.prefKey)))
       /\ scope.cityKey # NULL =>
              (p.city = scope.cityKey \/ Includes(p.address, Chars(scope.cityKey)))

\* the comparator of the distance sort: (a._d||1e9)-(b._d||1e9)
Rank(d) == IF d = 0 THEN Unranked ELSE d

\* Array.prototype.sort, which is stable, with that comparator
RECURSIVE InsertByRank(_, _, _)
InsertByRank(sorted, id, d) ==
    IF sorted = <<>> THEN <<id>>
    ELSE IF Rank(d[sorted[Len(sorted)]]) <= Rank(d[id]) THEN Append(sorted, id)
    ELSE Append(InsertByRank(SubSeq(sorted, 1, Len(sorted) - 1), id, d), sorted[Len(sorted)])

RECURSIVE SortByRank(_, _)
SortByRank(arr, d) ==
    IF arr = <<>> THEN <<>>
    ELSE InsertByRank(SortByRank(SubSeq(arr, 1, Len(arr) - 1), d), arr[Len(arr)], d)

\* the coordinate stages letting a place without coordinates through
CoordStages_coordlessPass(f, id, opts) ==
    \/ ~hasCoords(id)
    \/ /\ inGeoScope(id, f.geoScope)
       /\ inSelection(id, f.selectionLayer)
       /\ opts.boundsOnly => id \in InBounds(f.mapView)

\* the stages of filterPlaces that test coordinates (lines 545, 561-565)
CoordStages(f, id, opts) ==
    /\ inGeoScope(id, f.geoScope)
    /\ inSelection(id, f.selectionLayer)
    /\ opts.boundsOnly => (hasCoords(id) /\ id \in InBounds(f.mapView))

\* the stages of filterPlaces that do not (lines 546-560, 566-582)
OtherStages(f, id, ts, opts) ==
    /\ LabelMatch(id, f.geoScope)
    /\ f.selectedTags # {} => Range(Spot(id).tags) \cap f.selectedTags # {}
    /\ ts # <<>> => TextMatch(id, ts)
    /\ opts.onlyDiscount => Spot(id).student
    /\ opts.onlyFavs => isFav(f, id)

\* the distance annotation keeping a _d that a place object already has
Annotate_keepOld(f, listed, opts) ==
    IF opts.sortByDistance /\ f.currentLoc # NULL
    THEN [id \in DOMAIN f.placeD |->
            IF id \in listed /\ f.placeD[id] = NoD
            THEN IF hasCoords(id) THEN haversineKm(f.currentLoc, id) ELSE Infinity
            ELSE f.placeD[id]]
    ELSE [id \in DOMAIN f.placeD |-> IF id \in listed THEN NoD ELSE f.placeD[id]]

\* lines 583-587: the _d written to, or deleted from, the place objects of the list
Annotate(f, listed, opts) ==
    IF opts.sortByDistance /\ f.currentLoc # NULL
    THEN [id \in DOMAIN f.placeD |->
            IF id \in listed
            THEN IF hasCoords(id) THEN haversineKm(f.currentLoc, id) ELSE Infinity
            ELSE f.placeD[id]]
    ELSE [id \in DOMAIN f.placeD |-> IF id \in listed THEN NoD ELSE f.placeD[id]]

\* lines 542-588, on the place objects of PLACES
filterPlacesOf(f, query, opts) ==
    LET ts == tokens(query)
        arr == SelectSeq(f.PLACES, LAMBDA id : CoordStages(f, id, opts)
                                              /\ OtherStages(f, id, ts, opts))
        d == Annotate(f, Range(arr), opts)
        out == IF opts.sortByDistance /\ f.currentLoc # NULL THEN SortByRank(arr, d) ELSE arr
    IN [f EXCEPT !.placeD = d,
                 !.ret = out,
                 !.filterOp = [@ EXCEPT !.ran = TRUE, !.query = query, !.opts = opts,
                                        !.out = out,
                                        !.ds = [i \in DOMAIN out |-> d[out[i]]]]]

\* lines 655-664, up to the call of render
applyFiltersOf(f) ==
    filterPlacesOf(f, f.qValue,
                   [onlyFavs |-> f.memberAuth.isLoggedIn /\ f.onlyFavs.checked,
                    onlyDiscount |-> f.onlyDiscount,
                    boundsOnly |-> f.boundsOnly,
                    sortByDistance |-> f.sortByDistance /\ f.currentLoc # NULL])

FilterInit ==
    /\ qValue = <<>>
    /\ onlyFavs = [checked |-> FALSE, disabled |-> TRUE]
    /\ onlyDiscount = FALSE
    /\ boundsOnly = FALSE
    /\ sortByDistance = FALSE
    /\ currentLoc = NULL
    /\ selectionLayer = NoSelection
    /\ centerDot = NoDot
    /\ radiusValue = DefaultRadius
    /\ mapShapes = EmptyBag
    /\ selectedTags = {}
    /\ placeD = [id \in Range(PLACES) |-> NoD]
    /\ filterOp = FilterOpRecord("bootstrap")

\* ---- normalizeSpot (part_000 lines 68-97) ----
\* values of raw.lat and raw.lon in the JSON of /api/spots: the empty string, null, a
\* word, a string of spaces, a numeral as a string, numbers, and the string "Infinity"
RawValues == {"", NULL, "abc", " ", "35.6", "n35", "n0", "Infinity"}

\* a JavaScript number: nan, or inf (an infinity), or the finite value val
NaN == [nan |-> TRUE, inf |-> FALSE, val |-> 0]
Num(val) == [nan |-> FALSE, inf |-> FALSE, val |-> val]
\* the value null in a coordinate
NoCoord == [nan |-> FALSE, inf |-> FALSE, val |-> -1]

\* Number(v); 35.6 is kept as 356 tenths, the numbers as tenths too
Number(v) ==
    CASE v = "" -> Num(0)
      [] v = NULL -> Num(0)
      [] v = " " -> Num(0)
      [] v = "35.6" -> Num(356)
      [] v = "n35" -> Num(350)
      [] v = "n0" -> Num(0)
      [] v = "Infinity" -> [nan |-> FALSE, inf |-> TRUE, val |-> 0]
      [] OTHER -> NaN

isNaN(n) == n.nan
\* Number.isFinite: false for null, NaN and the infinities
isFinite(n) == n # NoCoord /\ ~n.nan /\ ~n.inf

NoSpot == [lat |-> NoCoord, lon |-> NoCoord, hasCoords |-> FALSE, made |-> FALSE]

\* lines 70-71: one coordinate
Coord(v) == IF v # "" /\ v # NULL /\ ~isNaN(Number(v)) THEN Number(v) ELSE NoCoord

normalizeSpot(raw) ==
    LET lat == Coord(raw.lat)
        lon == Coord(raw.lon)
    IN [lat |-> lat, lon |-> lon, hasCoords |-> isFinite(lat) /\ isFinite(lon), made |-> TRUE]

\* any spot of the backend, not yet normalized
LoadInit ==
    /\ rawSpot \in [lat : RawValues, lon : RawValues]
    /\ spot = NoSpot

\* ---- the identity integration (firebase-auth.js lines 52-106) ----
MaxVerifying == 2     \* handleAuthState runs suspended at the same time
NotReported == "notReported"    \* onAuthStateChanged has not called back yet
NoRun == [user |-> NULL, stage |-> "done", idToken |-> NULL]
\* what a step of handleAuthState does: the detail it emits, if any, and where it suspends
IdentityStep(emits, user, idToken, failed, run) ==
    [emits |-> emits, detail |-> emitAuthState(user, idToken), failed |-> failed, run |-> run]

\* handleAuthState to its first await (lines 67-77)
handleAuthState(user) ==
    IF user = NULL THEN IdentityStep(TRUE, NULL, NULL, FALSE, NoRun)
    ELSE IdentityStep(FALSE, NULL, NULL, FALSE,
                      [user |-> user, stage |-> "token", idToken |-> NULL])

\* the outcomes of the await a run is suspended at: getIdToken resolves or rejects, fetch
\* resolves with an ok or a non-ok response or rejects, res.json() resolves or rejects
AwaitOutcomes(run) ==
    CASE run.stage = "token" -> {"ok", "throw"}
      [] run.stage = "fetch" -> {"ok", "notOk", "throw"}
      [] OTHER -> {"ok", "throw"}

\* handleAuthState emitting the user although the verification answered non-ok
handleAuthState_resume_ignoreStatus(run, r) ==
    CASE run.stage = "token" ->
             IF r = "throw" THEN IdentityStep(TRUE, NULL, NULL, TRUE, NoRun)
             ELSE IdentityStep(FALSE, NULL, NULL, FALSE,
                               [run EXCEPT !.stage = "fetch", !.idToken = TokenOf(run.user)])
      [] run.stage = "fetch" ->
             IF r = "throw" THEN IdentityStep(TRUE, NULL, NULL, TRUE, NoRun)
             ELSE IF r = "notOk" THEN IdentityStep(TRUE, run.user, run.idToken, TRUE, NoRun)
             ELSE IdentityStep(FALSE, NULL, NULL, FALSE, [run EXCEPT !.stage = "json"])
      [] OTHER -> IdentityStep(TRUE, run.user, run.idToken, FALSE, NoRun)

\* handleAuthState from the await the run is suspended at, with its outcome r (lines 77-101)
handleAuthState_resume(run, r) ==
    CASE run.stage = "token" ->
             IF r = "throw" THEN IdentityStep(TRUE, NULL, NULL, TRUE, NoRun)
             ELSE IdentityStep(FALSE, NULL, NULL, FALSE,
                               [run EXCEPT !.stage = "fetch", !.idToken = TokenOf(run.user)])
      [] run.stage = "fetch" ->
             IF r \in {"throw", "notOk"} THEN IdentityStep(TRUE, NULL, NULL, TRUE, NoRun)
             ELSE IdentityStep(FALSE, NULL, NULL, FALSE, [run EXCEPT !.stage = "json"])
      [] OTHER -> IdentityStep(TRUE, run.user, run.idToken, FALSE, NoRun)

IdentityInit ==
    /\ providerUser = NotReported
    /\ verifying = EmptyBag
    /\ firebaseAuthState = emitAuthState(NULL, NULL)
    /\ identityOp = [op |-> "init", user |-> NULL, emits |-> FALSE, failed |-> FALSE]

\* ---- the backend serving the favorites and the search history ----
\* no pair of toggleFav calls is being followed
NoToggle == [id |-> NULL, before |-> FALSE, sent |-> 0, done |-> 0]

\* the backend serving the request t: a favorite is added to or removed from the stored
\* set, the list requests are answered with what is stored then
serve(stored, t) ==
    CASE t.req = "favAdd" -> stored \cup {t.id}
      [] t.req = "favRemove" -> stored \ {t.id}
      [] OTHER -> stored

answer(stored, t) ==
    CASE t.req = "favList" -> Ok([items |-> stored])
      [] t.req = "histList" -> Ok([queries |-> <<>>])
      [] OTHER -> Ok([ok |-> TRUE])

BackendInit ==
    /\ backendFavs = {}
    /\ answered = EmptyBag
    /\ toggleOp = NoToggle

\* the page with its spots loaded
OuterInit ==
    /\ rawSpot = [lat |-> "35.6", lon |-> "n35"]
    /\ spot = normalizeSpot(rawSpot)
    /\ IdentityInit
    /\ BackendInit

\* ---- initial state (part_000 lines 6-9, 436) ----
Init ==
    /\ memberAuth = [user |-> NULL, idToken |-> NULL, isLoggedIn |-> FALSE]
    /\ favs = {}
    /\ commentsCache = <<>>
    /\ searchHistory = <<>>
    /\ selectedId = NULL
    /\ panelActive = FALSE
    /\ panelForm = NoForm
    /\ pending = EmptyBag
    /\ staleKeys = {}
    /\ ensuredSince = {}
    /\ avgOp = NoAvg
    /\ tracking = FALSE
    /\ lastOp = [op |-> "init", id |-> NULL, status |-> "none", out |-> "none",
                 sent |-> "none"]
    /\ GeoInit
    /\ MarkerInit(TRUE)
    /\ FilterInit
    /\ OuterInit

Room == BagCardinality(pending) < MaxPending

\* ---- handler runs started by an event ----
\* window 'firebase-auth-state' event
AuthEventWith(detail) ==
    /\ detail.user # NULL => Room
    /\ LET had == memberAuth.isLoggedIn /\ favs # {} /\ DOMAIN commentsCache # {}
           s == [Begin("auth", NULL) EXCEPT !.lastOp.out = IF had THEN "hadData" ELSE "none"]
       IN Commit(authListener(s, detail))

\* click on a card's or the panel's favorite button (lines 631-635, 745)
FavClickOn(id) ==
    /\ Room
    /\ Commit(toggleFav(Begin("toggleFav", id), id))

\* click on a marker or on a card's detail button (lines 451, 630)
OpenPanelClickOn(id) ==
    /\ Room
    /\ Commit(openPanelFor(Begin("openPanelFor", id), id))

\* click on #closePanel (lines 682-685)
ClosePanelClick ==
    /\ panelActive
    /\ Commit([Begin("closePanel", NULL) EXCEPT !.panelActive = FALSE])

\* submit event of the comment form shown in the panel (lines 779-807)
CommentSubmitWith(body, rating) ==
    /\ panelForm.id # NULL
    /\ panelActive
    /\ Room
    /\ Commit(panelCommentForm_submit(Begin("submit", panelForm.id), panelForm.id,
                                      [body |-> body, rating |-> rating]))

\* submit event of #searchForm (lines 921-926)
SearchSubmitWith(q) ==
    /\ Room
    /\ Commit(recordSearchQuery(Begin("search", NULL), Trim(q)))

\* ---- handler runs resumed by the completion of request t with response r ----
LoadFavoritesDoneWith(t, r) ==
    /\ t.req = "favList"
    /\ BagIn(t, pending)
    /\ Commit(authListener_afterFavorites(
                  loadFavorites_resume(BeginResume("loadFavoritesDone", t, r), r)))

ToggleFavDoneWith(t, r) ==
    /\ t.req \in {"favAdd", "favRemove"}
    /\ BagIn(t, pending)
    /\ Commit(toggleFav_resume(BeginResume("toggleFavDone", t, r), t, r))

EnsureCommentsDoneWith(t, r) ==
    /\ t.req = "comList"
    /\ BagIn(t, pending)
    /\ Commit(openPanelFor_render(
                  ensureComments_resume(BeginResume("ensureCommentsDone", t, r), t, r), t.id))

SubmitCommentDoneWith(t, r) ==
    /\ t.req = "comCreate"
    /\ BagIn(t, pending)
    /\ r.status # "reject" => Len(MapGetOr(commentsCache, t.id, <<>>)) < MaxComments
    /\ Commit(panelCommentForm_submit_resume(BeginResume("submitDone", t, r), t, r))

RefreshSearchHistoryDoneWith(t, r) ==
    /\ t.req = "histList"
    /\ BagIn(t, pending)
    /\ LET s1 == refreshSearchHistory_resume(BeginResume("refreshSearchHistoryDone", t, r), r)
       IN Commit(IF t.cont = "auth" THEN authListener_afterHistory(s1) ELSE s1)

RecordSearchQueryDoneWith(t, r) ==
    /\ t.req = "histPost"
    /\ BagIn(t, pending)
    /\ Commit(recordSearchQuery_resume(BeginResume("recordSearchQueryDone", t, r), r))

\* ---- the whole page, the user acting on one place of the catalog ----
FocusPlaces == {"p1"}

AuthEvent == \E detail \in AuthDetails : AuthEventWith(detail)
FavClick == \E id \in FocusPlaces : FavClickOn(id)
OpenPanelClick == \E id \in FocusPlaces : OpenPanelClickOn(id)
\* the user submits the form: its controls are not disabled (lines 775-777)
CommentSubmit ==
    \E body \in Bodies, rating \in RatingInputs :
        ~panelForm.disabled /\ CommentSubmitWith(body, rating)
SearchSubmit == \E q \in Bodies : SearchSubmitWith(q)
LoadFavoritesDone ==
    \E t \in BagToSet(pending) : \E r \in Responses(t, FocusPlaces) : LoadFavoritesDoneWith(t, r)
ToggleFavDone ==
    \E t \in BagToSet(pending) : \E r \in Responses(t, Places) : ToggleFavDoneWith(t, r)
EnsureCommentsDone ==
    \E t \in BagToSet(pending) : \E r \in Responses(t, Places) : EnsureCommentsDoneWith(t, r)
SubmitCommentDone ==
    \E t \in BagToSet(pending) : \E r \in Responses(t, Places) : SubmitCommentDoneWith(t, r)
RefreshSearchHistoryDone ==
    \E t \in BagToSet(pending) : \E r \in Responses(t, Places) : RefreshSearchHistoryDoneWith(t, r)
RecordSearchQueryDone ==
    \E t \in BagToSet(pending) : \E r \in Responses(t, Places) : RecordSearchQueryDoneWith(t, r)

Next ==
    \/ AuthEvent
    \/ FavClick
    \/ OpenPanelClick
    \/ ClosePanelClick
    \/ CommentSubmit
    \/ SearchSubmit
    \/ LoadFavoritesDone
    \/ ToggleFavDone
    \/ EnsureCommentsDone
    \/ SubmitCommentDone
    \/ RefreshSearchHistoryDone
    \/ RecordSearchQueryDone

Spec == Init /\ [][Next]_vars

\* ---- favorites only, the user acting on every place ----
FavClickAny == \E id \in Places : FavClickOn(id)
LoadFavoritesDoneAny ==
    \E t \in BagToSet(pending) : \E r \in Responses(t, Places) : LoadFavoritesDoneWith(t, r)

NextFav ==
    \/ AuthEvent
    \/ FavClickAny
    \/ LoadFavoritesDoneAny
    \/ ToggleFavDone
    \/ RefreshSearchHistoryDone

SpecFav == Init /\ [][NextFav]_vars

\* ---- comments only, every place, a member without stored favorites or history ----
OpenPanelClickAny == \E id \in Places : OpenPanelClickOn(id)
LoadFavoritesDoneNone ==
    \E t \in BagToSet(pending) : LoadFavoritesDoneWith(t, Ok([items |-> {}]))
RefreshSearchHistoryDoneNone ==
    \E t \in BagToSet(pending) : RefreshSearchHistoryDoneWith(t, Ok([queries |-> <<>>]))

NextCom ==
    \/ AuthEvent
    \/ OpenPanelClickAny
    \/ ClosePanelClick
    \/ CommentSubmit
    \/ LoadFavoritesDoneNone
    \/ EnsureCommentsDone
    \/ SubmitCommentDone
    \/ RefreshSearchHistoryDoneNone

SpecCom == Init /\ [][NextCom]_vars

\* ---- comments of one place, the submit event dispatched to the form whether or not
\* ---- its controls are disabled ----
CommentSubmitEvent ==
    \E body \in Bodies, rating \in RatingInputs : CommentSubmitWith(body, rating)

NextForm ==
    \/ AuthEvent
    \/ OpenPanelClick
    \/ ClosePanelClick
    \/ CommentSubmitEvent
    \/ LoadFavoritesDoneNone
    \/ EnsureCommentsDone
    \/ SubmitCommentDone
    \/ RefreshSearchHistoryDoneNone

SpecForm == Init /\ [][NextForm]_vars

\* ---- the same, recording which cache entries come from requests of an older session ----
InitTracking ==
    /\ memberAuth = [user |-> NULL, idToken |-> NULL, isLoggedIn |-> FALSE]
    /\ favs = {}
    /\ commentsCache = <<>>
    /\ searchHistory = <<>>
    /\ selectedId = NULL
    /\ panelActive = FALSE
    /\ panelForm = NoForm
    /\ pending = EmptyBag
    /\ staleKeys = {}
    /\ ensuredSince = {}
    /\ avgOp = NoAvg
    /\ tracking = TRUE
    /\ lastOp = [op |-> "init", id |-> NULL, status |-> "none", out |-> "none",
                 sent |-> "none"]
    /\ GeoInit
    /\ MarkerInit(TRUE)
    /\ FilterInit
    /\ OuterInit

SpecComTracking == InitTracking /\ [][NextCom]_vars

\* ---- avgRating on the caches a member's session can hold ----
RatedComments == {[body |-> <<"a">>, rating |-> r] : r \in Ratings}

InitAvg ==
    /\ memberAuth = [user |-> "u1", idToken |-> TokenOf("u1"), isLoggedIn |-> TRUE]
    /\ favs = {}
    /\ \E D \in SUBSET Places : commentsCache \in [D -> SeqUpTo(RatedComments, MaxComments)]
    /\ searchHistory = <<>>
    /\ selectedId = NULL
    /\ panelActive = FALSE
    /\ panelForm = NoForm
    /\ pending = EmptyBag
    /\ staleKeys = {}
    /\ ensuredSince = {}
    /\ avgOp = NoAvg
    /\ tracking = FALSE
    /\ lastOp = [op |-> "init", id |-> NULL, status |-> "none", out |-> "none",
                 sent |-> "none"]
    /\ GeoInit
    /\ MarkerInit(TRUE)
    /\ FilterInit
    /\ OuterInit

\* a call of avgRating, as render makes for each card (line 608) and openPanelFor for its place
AvgRatingOf(id) == Commit(avgRating(Begin("avgRating", id), id))
AvgRatingAny == \E id \in Places : AvgRatingOf(id)

SpecAvg == InitAvg /\ [][AvgRatingAny]_vars

\* ---- geo handlers ----
GRoom == BagCardinality(geoPending) < MaxGeoPending
AllPass == Range(RawSpots)

\* drawGeoScope().finally(()=> applyFilters()): the list is filtered when the drawing has ended
GeoCommit(g, op, pass) ==
    /\ BagCardinality(g.mapLayers) <= MaxLayers
    /\ GCommit(g)
    /\ MCommit(IF g.geoOp.done THEN applyFilters(MBegin(op), g.geoScope, pass) ELSE MCur)
    /\ UNCHANGED <<sessionVars, filterVars, outerVars>>

\* bootstrap sets GEO_READY with PLACES (lines 902-910): both requests succeed, or the
\* catch block empties both; populateRegions offers no region unless it is set (line 101)
GEO_READY == PLACES # <<>>

\* change listener of #regionSelect (line 247)
RegionChangeTo(v) ==
    /\ GEO_READY
    /\ v # regionSelect
    /\ GRoom
    /\ GeoCommit(setGeoScopeByUI(populatePrefs([GBegin("regionChange") EXCEPT !.regionSelect = v],
                                               v)),
                 "regionChange", AllPass)

\* change listener of #prefSelect (line 248)
PrefChangeTo(v) ==
    /\ v # prefSelect.value
    /\ GRoom
    /\ GeoCommit(setGeoScopeByUI(populateCities([GBegin("prefChange") EXCEPT !.prefSelect.value = v],
                                                regionSelect, v)),
                 "prefChange", AllPass)

\* change listener of #citySelect (line 249)
CityChangeTo(v) ==
    /\ v # citySelect.value
    /\ GRoom
    /\ GeoCommit(setGeoScopeByUI([GBegin("cityChange") EXCEPT !.citySelect.value = v]),
                 "cityChange", AllPass)

RegionChange == \E v \in DOMAIN GEO_TREE \cup {""} : RegionChangeTo(v)
PrefChange == \E v \in prefSelect.options \cup {""} : PrefChangeTo(v)
CityChange == \E v \in citySelect.options \cup {""} : CityChangeTo(v)

\* click listener of #clearGeo (lines 238-246)
ClearGeoClick ==
    /\ GCommit(clearGeo(GBegin("clearGeo")))
    /\ MCommit(applyFilters(MBegin("clearGeo"), NoScope, AllPass))
    /\ UNCHANGED <<sessionVars, filterVars, outerVars>>

\* click listener of #resetBtn (lines 971-988)
ResetClick ==
    /\ GCommit(resetBtn_geo(GBegin("reset")))
    /\ selectedId' = NULL
    /\ MCommit(render(MBegin("reset"), PLACES))
    /\ UNCHANGED <<outerVars, memberAuth, favs, commentsCache, searchHistory, panelActive, panelForm,
                   pending, lastOp, tracking, staleKeys, ensuredSince, avgOp, filterVars>>

\* the boundary request t is answered with r
BoundaryDoneWith(t, r) ==
    /\ BagIn(t, geoPending)
    /\ LET g0 == [GCur EXCEPT !.geoPending = @ (-) SetToBag({t}),
                              !.geoOp = [GeoOpRecord("boundaryDone") EXCEPT
                                             !.status = r.status,
                                             !.call = CacheKey(t.pref, t.city)]]
           g1 == fetchGeoBoundary_resume(g0, t, r)
       IN GeoCommit(IF t.stage = "first" THEN drawGeoScope_afterFirst(g1, g1.ret)
                    ELSE drawGeoScope_finish(g1, g1.ret),
                    "boundaryDone", AllPass)

BoundaryDone == \E t \in BagToSet(geoPending) : \E r \in GeoResponses(t) : BoundaryDoneWith(t, r)

NextGeo ==
    \/ RegionChange
    \/ PrefChange
    \/ CityChange
    \/ ClearGeoClick
    \/ ResetClick
    \/ BoundaryDone

SpecGeo == Init /\ [][NextGeo]_vars

\* ---- the filter controls and the map, the list filtered by every stage ----
FCommit(run) ==
    \E f \in {run} :
    /\ qValue' = f.qValue
    /\ onlyFavs' = f.onlyFavs
    /\ onlyDiscount' = f.onlyDiscount
    /\ boundsOnly' = f.boundsOnly
    /\ sortByDistance' = f.sortByDistance
    /\ currentLoc' = f.currentLoc
    /\ selectionLayer' = f.selectionLayer
    /\ centerDot' = f.centerDot
    /\ radiusValue' = f.radiusValue
    /\ mapShapes' = f.mapShapes
    /\ selectedTags' = f.selectedTags
    /\ placeD' = f.placeD
    /\ filterOp' = f.filterOp

\* applyFilters (lines 655-664): filterPlaces, then render with its syncMarkers
ApplyFilters(f) ==
    \E f1 \in {applyFiltersOf(f)} :
       /\ FCommit(f1)
       /\ MCommit(render(MBegin("applyFilters"), f1.ret))

\* input listener of #q (line 927)
QInputTo(v) ==
    /\ ApplyFilters([FBegin("applyFilters") EXCEPT !.qValue = v])
    /\ UNCHANGED <<sessionVars, geoVars, outerVars>>

\* change listener of #boundsOnly (lines 928-930)
BoundsOnlyChange ==
    /\ ApplyFilters([FBegin("applyFilters") EXCEPT !.boundsOnly = ~@])
    /\ UNCHANGED <<sessionVars, geoVars, outerVars>>

\* change listener of #sortByDistance (lines 931-934)
SortByDistanceChange ==
    /\ ApplyFilters([FBegin("applyFilters") EXCEPT !.sortByDistance = ~@])
    /\ UNCHANGED <<sessionVars, geoVars, outerVars>>

\* the position callback of locate (lines 667-673)
LocateDoneAt(loc) ==
    /\ mapView' = [kind |-> "loc", scope |-> loc, boundary |-> NoBoundary]
    /\ ApplyFilters([FBegin("applyFilters") EXCEPT !.currentLoc = loc, !.mapView = mapView'])
    /\ UNCHANGED <<outerVars, sessionVars, regionSelect, prefSelect, citySelect, geoScope, geoCircle,
                   geoBoundaryLayer, geoBoundaryCache, mapLayers, geoPending, geoOp>>

\* layer.remove() keeping the variable: a layer that is not on the map stays off it
removeLayer(shapes, layer) ==
    IF layer.kind = "none" THEN shapes ELSE shapes (-) SetToBag({layer})

\* placeCircleAt leaving the previous centre marker on the map
placeCircleAt_keepDot(f, latlng) ==
    LET r == IF f.radiusValue # 0 THEN f.radiusValue ELSE DefaultRadius
        cleared == removeLayer(f.mapShapes, f.selectionLayer)
    IN [f EXCEPT !.selectionLayer = Circle(latlng, r),
                 !.centerDot = CircleMarker(latlng),
                 !.mapShapes = (cleared (+) SetToBag({Circle(latlng, r)}))
                                   (+) SetToBag({CircleMarker(latlng)})]

\* placeCircleAt up to its applyFilters (lines 469-474)
placeCircleAt(f, latlng) ==
    LET r == IF f.radiusValue # 0 THEN f.radiusValue ELSE DefaultRadius
        cleared == removeLayer(removeLayer(f.mapShapes, f.selectionLayer), f.centerDot)
    IN [f EXCEPT !.selectionLayer = Circle(latlng, r),
                 !.centerDot = CircleMarker(latlng),
                 !.mapShapes = (cleared (+) SetToBag({Circle(latlng, r)}))
                                   (+) SetToBag({CircleMarker(latlng)})]

\* the boxzoomend listener up to its applyFilters (lines 461-463)
boxZoomEnd(f, bounds) ==
    LET cleared == removeLayer(removeLayer(f.mapShapes, f.selectionLayer), f.centerDot)
    IN [f EXCEPT !.selectionLayer = Rectangle(bounds),
                 !.centerDot = NoDot,
                 !.mapShapes = cleared (+) SetToBag({Rectangle(bounds)})]

\* what resetBtn does to the selection (lines 974-975)
resetBtn_selection(f) ==
    [f EXCEPT !.selectionLayer = NoSelection,
              !.centerDot = NoDot,
              !.mapShapes = removeLayer(removeLayer(@, f.selectionLayer), f.centerDot)]

\* click on the map: placeCircleAt (lines 457, 469-476)
MapClickAt(latlng) ==
    /\ ApplyFilters(placeCircleAt(FBegin("applyFilters"), latlng))
    /\ UNCHANGED <<sessionVars, geoVars, outerVars>>

\* boxzoomend listener of the map (lines 459-465)
BoxZoomEndWith(bounds) ==
    /\ ApplyFilters(boxZoomEnd(FBegin("applyFilters"), bounds))
    /\ UNCHANGED <<sessionVars, geoVars, outerVars>>

\* input listener of #radius (lines 937-944): setRadius changes the circle on the map
RadiusInputTo(v) ==
    /\ v # radiusValue
    /\ IF selectionLayer.kind = "circle"
       THEN ApplyFilters([FBegin("applyFilters") EXCEPT
                              !.radiusValue = v,
                              !.selectionLayer.radius = v,
                              !.mapShapes = (@ (-) SetToBag({selectionLayer}))
                                                (+) SetToBag({[selectionLayer EXCEPT !.radius = v]})])
       ELSE /\ FCommit([FBegin("radiusInput") EXCEPT !.radiusValue = v])
            /\ UNCHANGED markerVars
    /\ UNCHANGED <<sessionVars, geoVars, outerVars>>

\* click listener of #centerHere (lines 953-956); without a position it only shows a toast
CenterHereClick ==
    /\ currentLoc # NULL
    /\ ApplyFilters(placeCircleAt(FBegin("applyFilters"), currentLoc))
    /\ UNCHANGED <<sessionVars, geoVars, outerVars>>

\* the user pans the map; moveend listener (line 464)
MoveEnd ==
    /\ mapView' = [kind |-> "pan", scope |-> NULL, boundary |-> NoBoundary]
    /\ IF boundsOnly
       THEN ApplyFilters([FBegin("applyFilters") EXCEPT !.mapView = mapView'])
       ELSE FCommit(FBegin("moveEnd")) /\ UNCHANGED markerVars
    /\ UNCHANGED <<outerVars, sessionVars, regionSelect, prefSelect, citySelect, geoScope, geoCircle,
                   geoBoundaryLayer, geoBoundaryCache, mapLayers, geoPending, geoOp>>

\* change listener of #tagSelect (lines 520-525)
TagSelectChangeTo(value) ==
    /\ ApplyFilters([FBegin("applyFilters") EXCEPT
                         !.selectedTags = IF value = "" THEN {} ELSE {value}])
    /\ UNCHANGED <<sessionVars, geoVars, outerVars>>

\* change listener of #regionSelect (line 247), for the regions, which have no boundary
RegionChangeOf(v) ==
    /\ GEO_READY
    /\ v # regionSelect
    /\ LET g == setGeoScopeByUI(populatePrefs([GBegin("regionChange") EXCEPT
                                                   !.regionSelect = v], v))
       IN /\ g.geoOp.done
          /\ GCommit(g)
          /\ ApplyFilters([FBegin("applyFilters") EXCEPT !.geoScope = g.geoScope,
                                                         !.mapView = g.mapView])
    /\ UNCHANGED <<sessionVars, outerVars>>

\* click listener of #resetBtn (lines 971-988): render(PLACES), filterPlaces is not called
ResetClickAll ==
    /\ GCommit(resetBtn_geo(GBegin("reset")))
    /\ selectedId' = NULL
    /\ FCommit([resetBtn_selection(FBegin("reset")) EXCEPT !.qValue = <<>>,
                                                           !.onlyFavs.checked = FALSE,
                                                           !.onlyDiscount = FALSE,
                                                           !.boundsOnly = FALSE,
                                                           !.sortByDistance = FALSE,
                                                           !.currentLoc = NULL,
                                                           !.selectedTags = {}])
    /\ MCommit(render(MBegin("reset"), PLACES))
    /\ UNCHANGED <<outerVars, memberAuth, favs, commentsCache, searchHistory, panelActive, panelForm,
                   pending, lastOp, tracking, staleKeys, ensuredSince, avgOp>>

Locations == {Here, There}

NextPipeline ==
    \/ BoundsOnlyChange
    \/ SortByDistanceChange
    \/ \E loc \in Locations : LocateDoneAt(loc)
    \/ MapClickAt("pt1")
    \/ BoxZoomEndWith("box1")
    \/ MoveEnd
    \/ TagSelectChangeTo("t1")
    \/ \E v \in DOMAIN GEO_TREE \cup {""} : RegionChangeOf(v)
    \/ ResetClickAll

SpecPipeline == Init /\ [][NextPipeline]_vars

\* ---- the selection drawn on the map ----
NextSelection ==
    \/ MapClickAt("pt1")
    \/ BoxZoomEndWith("box1")
    \/ \E v \in RadiusValues : RadiusInputTo(v)
    \/ \E loc \in Locations : LocateDoneAt(loc)
    \/ CenterHereClick
    \/ BoundsOnlyChange
    \/ ResetClickAll

SpecSelection == Init /\ [][NextSelection]_vars

\* ---- the text query ----
MaxQuery == 3     \* length of the text typed into #q
QueryChars == {"a", "B", "b", "|", " "}
\* a keystroke in #q: a character typed at the end, or the last one deleted
QInputAny ==
    \/ \E c \in QueryChars : Len(qValue) < MaxQuery /\ QInputTo(Append(qValue, c))
    \/ qValue # <<>> /\ QInputTo(SubSeq(qValue, 1, Len(qValue) - 1))

SpecText == Init /\ [][QInputAny]_vars

\* ---- the whole page: session handlers with the favorites flag and the list ----
\* (the session actions above are these handlers seen on the session state alone: what
\* follows in a listener reads the session state and writes none of it)

\* syncFavFilterAvailability leaving the checkbox as checked as it was
syncFavFilterAvailability_keepChecked(f) ==
    IF ~f.memberAuth.isLoggedIn THEN [f EXCEPT !.onlyFavs.disabled = TRUE]
    ELSE [f EXCEPT !.onlyFavs.disabled = FALSE]

\* syncFavFilterAvailability (lines 327-336)
syncFavFilterAvailability(f) ==
    IF ~f.memberAuth.isLoggedIn THEN [f EXCEPT !.onlyFavs = [checked |-> FALSE, disabled |-> TRUE]]
    ELSE [f EXCEPT !.onlyFavs.disabled = FALSE]

\* the controls and the list as the run s of a session handler finds them
FAfter(s, op) == [FBegin(op) EXCEPT !.memberAuth = s.memberAuth, !.favs = s.favs]

\* end of a handler run: s the session state, f the controls; pass: applyFilters is called
PageRun(s, f, pass) ==
    /\ SessionCommit(s)
    /\ IF pass THEN ApplyFilters(f) ELSE FCommit(f) /\ UNCHANGED markerVars

PageCommit(s, f, pass) == PageRun(s, f, pass) /\ UNCHANGED <<geoVars, outerVars>>

\* openPanelFor awaited by the auth listener (line 889): the listener goes on after it
AwaitedByListener(s) ==
    LET t == Task("comList", s.selectedId, "panel", NoInput)
    IN IF s.susp /\ s.lastOp.sent = "comList" /\ BagIn(t, s.pending)
       THEN [s EXCEPT !.pending = (@ (-) SetToBag({t})) (+) SetToBag({[t EXCEPT !.cont = "auth"]})]
       ELSE s

\* the auth listener calling applyFilters before its first await instead of at its end
authListener_rest_passFirst(run) ==
    \E s \in {run} :
        \E s1 \in {AwaitedByListener(s)} :
            LET f0 == FAfter(s1, IF s.lastOp.op = "auth" THEN "applyFilters" ELSE "await")
                synced == ~s.susp \/ s.lastOp.sent = "comList"
            IN PageRun(s1, IF synced THEN syncFavFilterAvailability(f0) ELSE f0,
                       s.lastOp.op = "auth")

\* the auth listener from where its run s stands: syncFavFilterAvailability (line 885)
\* once the favorites and the history are settled, applyFilters (line 892) at its end
authListener_rest(run) ==
    \E s \in {run} :
        \E s1 \in {AwaitedByListener(s)} :
            LET f0 == FAfter(s1, IF s.susp THEN "await" ELSE "applyFilters")
                synced == ~s.susp \/ s.lastOp.sent = "comList"
            IN PageRun(s1, IF synced THEN syncFavFilterAvailability(f0) ELSE f0, ~s.susp)

\* the listener of 'firebase-auth-state' run on an event (lines 867-893)
authDispatch(detail) ==
    /\ detail.user # NULL => Room
    /\ LET had == memberAuth.isLoggedIn /\ favs # {} /\ DOMAIN commentsCache # {}
           s == [Begin("auth", NULL) EXCEPT !.lastOp.out = IF had THEN "hadData" ELSE "none"]
       IN authListener_rest(authListener(s, detail))

PageAuthEventWith(detail) == authDispatch(detail) /\ UNCHANGED <<geoVars, outerVars>>

\* the listener goes on when the favorites request it awaits settles (lines 876-878)
PageLoadFavoritesDoneRun(t, r) ==
    /\ t.req = "favList"
    /\ BagIn(t, pending)
    /\ authListener_rest(authListener_afterFavorites(
                             loadFavorites_resume(BeginResume("loadFavoritesDone", t, r), r)))

PageLoadFavoritesDoneWith(t, r) ==
    PageLoadFavoritesDoneRun(t, r) /\ UNCHANGED <<geoVars, outerVars>>

PageRefreshSearchHistoryDoneRun(t, r) ==
    /\ t.req = "histList"
    /\ BagIn(t, pending)
    /\ \E s1 \in {refreshSearchHistory_resume(BeginResume("refreshSearchHistoryDone", t, r), r)} :
          IF t.cont = "auth" THEN authListener_rest(authListener_afterHistory(s1))
          ELSE PageRun(s1, FAfter(s1, "none"), FALSE)

PageRefreshSearchHistoryDoneWith(t, r) ==
    PageRefreshSearchHistoryDoneRun(t, r) /\ UNCHANGED <<geoVars, outerVars>>

\* the listener that awaited openPanelFor goes on to applyFilters (line 892)
PageEnsureCommentsDoneWith(t, r) ==
    /\ t.req = "comList"
    /\ BagIn(t, pending)
    /\ LET op == IF t.cont = "auth" THEN "authPanelDone" ELSE "ensureCommentsDone"
       IN \E s1 \in {openPanelFor_render(
                          ensureComments_resume(BeginResume(op, t, r), t, r), t.id)} :
              IF t.cont = "auth" THEN PageCommit(s1, FAfter(s1, "applyFilters"), TRUE)
              ELSE PageCommit(s1, FAfter(s1, "none"), FALSE)

\* click on a favorite button: toggleFav awaited, then applyFilters (lines 631-635, 745)
PageFavClickRun(id) ==
    /\ Room
    /\ \E s \in {toggleFav(Begin("toggleFav", id), id)} :
          PageRun(s, FAfter(s, IF s.susp THEN "await" ELSE "applyFilters"), ~s.susp)

PageFavClickOn(id) == PageFavClickRun(id) /\ UNCHANGED <<geoVars, outerVars>>

PageToggleFavDoneRun(t, r) ==
    /\ t.req \in {"favAdd", "favRemove"}
    /\ BagIn(t, pending)
    /\ \E s \in {toggleFav_resume(BeginResume("toggleFavDone", t, r), t, r)} :
          PageRun(s, FAfter(s, "applyFilters"), TRUE)

PageToggleFavDoneWith(t, r) == PageToggleFavDoneRun(t, r) /\ UNCHANGED <<geoVars, outerVars>>

\* click on a marker or on a card's detail button (lines 451, 630)
PageOpenPanelClickOn(id) ==
    /\ Room
    /\ \E s \in {openPanelFor(Begin("openPanelFor", id), id)} :
          PageCommit(s, FAfter(s, "none"), FALSE)

\* submit event of the comment form (lines 779-807): the listener ends with the toast
PageCommentSubmitWith(body, rating) ==
    /\ panelForm.id # NULL
    /\ panelActive
    /\ Room
    /\ \E s \in {panelCommentForm_submit(Begin("submit", panelForm.id), panelForm.id,
                                        [body |-> body, rating |-> rating])} :
          PageCommit(s, FAfter(s, "none"), FALSE)

PageSubmitCommentDoneWith(t, r) ==
    /\ t.req = "comCreate"
    /\ BagIn(t, pending)
    /\ r.status # "reject" => Len(MapGetOr(commentsCache, t.id, <<>>)) < MaxComments
    /\ \E s \in {panelCommentForm_submit_resume(BeginResume("submitDone", t, r), t, r)} :
          PageCommit(s, FAfter(s, "none"), FALSE)

\* change listener of #onlyFavs (lines 928-930); a disabled checkbox takes no click
OnlyFavsChange ==
    /\ ~onlyFavs.disabled
    /\ \E s \in {Begin("onlyFavsChange", NULL)} :
          PageCommit(s, [FAfter(s, "applyFilters") EXCEPT !.onlyFavs.checked = ~@], TRUE)

PageAuthEvent == \E detail \in AuthDetails : PageAuthEventWith(detail)
PageFavClick == \E id \in FocusPlaces : PageFavClickOn(id)
PageOpenPanelClick == \E id \in FocusPlaces : PageOpenPanelClickOn(id)
PageCommentSubmit ==
    \E body \in {<<>>, <<"a">>}, rating \in {0, 5} :
        ~panelForm.disabled /\ PageCommentSubmitWith(body, rating)
PageLoadFavoritesDone ==
    \E t \in BagToSet(pending) : \E r \in Responses(t, FocusPlaces) :
        PageLoadFavoritesDoneWith(t, r)
PageRefreshSearchHistoryDone ==
    \E t \in BagToSet(pending) : \E r \in Responses(t, Places) :
        PageRefreshSearchHistoryDoneWith(t, r)
PageEnsureCommentsDone ==
    \E t \in BagToSet(pending) : \E r \in Responses(t, Places) :
        PageEnsureCommentsDoneWith(t, r)
PageToggleFavDone ==
    \E t \in BagToSet(pending) : \E r \in Responses(t, Places) : PageToggleFavDoneWith(t, r)
PageSubmitCommentDone ==
    \E t \in BagToSet(pending) : \E r \in Responses(t, Places) :
        PageSubmitCommentDoneWith(t, r)

NextPage ==
    \/ PageAuthEvent
    \/ PageFavClick
    \/ PageOpenPanelClick
    \/ PageCommentSubmit
    \/ PageLoadFavoritesDone
    \/ PageRefreshSearchHistoryDone
    \/ PageEnsureCommentsDone
    \/ PageToggleFavDone
    \/ PageSubmitCommentDone
    \/ OnlyFavsChange

SpecPage == Init /\ [][NextPage]_vars

\* ---- auth transitions whose requests all complete ----
NextTransition ==
    \/ PageAuthEvent
    \/ PageOpenPanelClick
    \/ OnlyFavsChange
    \/ PageLoadFavoritesDone
    \/ PageRefreshSearchHistoryDone
    \/ PageEnsureCommentsDone

\* every backend request is answered: no request stays in flight forever
SpecTransition ==
    /\ Init
    /\ [][NextTransition]_vars
    /\ WF_vars(PageLoadFavoritesDone)
    /\ WF_vars(PageRefreshSearchHistoryDone)
    /\ WF_vars(PageEnsureCommentsDone)

\* ---- the identity integration emitting the events the page listens to ----
\* a step of handleAuthState ends: the event it emits runs the page's listener before
\* dispatchEvent returns (firebase-auth.js lines 63-64)
IdentityCommit(op, user, step, runs) ==
    /\ verifying' = IF step.run = NoRun THEN runs ELSE runs (+) SetToBag({step.run})
    /\ identityOp' = [op |-> op, user |-> user, emits |-> step.emits, failed |-> step.failed]
    /\ IF step.emits
       THEN /\ firebaseAuthState' = step.detail
            /\ authDispatch(step.detail)
       ELSE UNCHANGED <<firebaseAuthState, sessionVars, markerVars, filterVars>>
    /\ UNCHANGED <<geoVars, loadVars, backendVars>>

\* the callback of onAuthStateChanged (lines 104-106): the provider reports a sign-in or
\* a sign-out
AuthStateChangedTo(user) ==
    /\ user # providerUser
    /\ user # NULL => BagCardinality(verifying) < MaxVerifying
    /\ providerUser' = user
    /\ IdentityCommit("callback", user, handleAuthState(user), verifying)

\* the await a run of handleAuthState is suspended at settles with the outcome r
VerifyStepWith(run, r) ==
    /\ BagIn(run, verifying)
    /\ providerUser' = providerUser
    /\ IdentityCommit(run.stage, run.user, handleAuthState_resume(run, r),
                      verifying (-) SetToBag({run}))

AuthStateChanged == \E user \in Users \cup {NULL} : AuthStateChangedTo(user)
VerifyStep == \E run \in BagToSet(verifying) : \E r \in AwaitOutcomes(run) : VerifyStepWith(run, r)

NextIdentity ==
    \/ AuthStateChanged
    \/ VerifyStep
    \/ PageLoadFavoritesDone
    \/ PageRefreshSearchHistoryDone

SpecIdentity == Init /\ [][NextIdentity]_vars

\* ---- the page and the backend: requests served in any order, responses delivered in
\* any order, every request answered with success ----
FavRequests == {"favAdd", "favRemove", "favList"}

\* an auth-state event; the calls followed so far are no longer alone
BackendAuthEventWith(detail) ==
    /\ authDispatch(detail)
    /\ toggleOp' = NoToggle
    /\ UNCHANGED <<geoVars, loadVars, identityVars, backendFavs, answered>>

\* click on the favorite button of a place: the first call of a pair when no favorites
\* request is in flight, the second when it follows the first on the same place
BackendFavClickOn(id) ==
    /\ PageFavClickRun(id)
    /\ toggleOp' = IF ~memberAuth.isLoggedIn \/ memberAuth.idToken = NULL THEN toggleOp
                   ELSE IF toggleOp.sent = 1 /\ toggleOp.id = id
                   THEN [toggleOp EXCEPT !.sent = 2]
                   ELSE IF \A t \in BagToSet(pending) : t.req \notin FavRequests
                   THEN [id |-> id, before |-> id \in favs, sent |-> 1, done |-> 0]
                   ELSE NoToggle
    /\ UNCHANGED <<geoVars, loadVars, identityVars, backendFavs, answered>>

\* the requests t in flight that the backend has served already
AnsweredFor(t) ==
    BagCardinality([a \in {b \in BagToSet(answered) : b.task = t} |-> answered[a]])

\* the backend serves a request it has not served yet
BackendServe(t) ==
    /\ BagIn(t, pending)
    /\ CopiesIn(t, pending) > AnsweredFor(t)
    /\ backendFavs' = serve(backendFavs, t)
    /\ answered' = answered (+) SetToBag({[task |-> t, r |-> answer(backendFavs', t)]})
    /\ UNCHANGED <<toggleOp, loadVars, identityVars, sessionVars, geoVars, markerVars, filterVars>>

\* the response of a served request arrives and the handler awaiting it goes on
BackendDeliver(a) ==
    /\ BagIn(a, answered)
    /\ answered' = answered (-) SetToBag({a})
    /\ CASE a.task.req = "favList" ->
                PageLoadFavoritesDoneRun(a.task, a.r) /\ toggleOp' = NoToggle
         [] a.task.req = "histList" ->
                PageRefreshSearchHistoryDoneRun(a.task, a.r) /\ UNCHANGED toggleOp
         [] OTHER ->
                /\ PageToggleFavDoneRun(a.task, a.r)
                /\ toggleOp' = IF toggleOp.sent > 0 /\ toggleOp.id = a.task.id
                               THEN [toggleOp EXCEPT !.done = @ + 1] ELSE toggleOp
    /\ UNCHANGED <<backendFavs, geoVars, loadVars, identityVars>>

BackendAuthEvent == \E detail \in AuthDetails : BackendAuthEventWith(detail)
BackendFavClick == \E id \in FocusPlaces : BackendFavClickOn(id)
BackendServeAny == \E t \in BagToSet(pending) : BackendServe(t)
BackendDeliverAny == \E a \in BagToSet(answered) : BackendDeliver(a)

NextBackend ==
    \/ BackendAuthEvent
    \/ BackendFavClick
    \/ BackendServeAny
    \/ BackendDeliverAny

SpecBackend == Init /\ [][NextBackend]_vars

\* ---- normalizeSpot on the spots the backend can serve ----
\* bootstrap (line 901): spots.map(normalizeSpot)
NormalizeSpot ==
    /\ ~spot.made
    /\ spot' = normalizeSpot(rawSpot)
    /\ UNCHANGED <<rawSpot, identityVars, backendVars, sessionVars, geoVars, markerVars,
                 filterVars>>

InitNormalize ==
    /\ memberAuth = [user |-> NULL, idToken |-> NULL, isLoggedIn |-> FALSE]
    /\ favs = {}
    /\ commentsCache = <<>>
    /\ searchHistory = <<>>
    /\ selectedId = NULL
    /\ panelActive = FALSE
    /\ panelForm = NoForm
    /\ pending = EmptyBag
    /\ staleKeys = {}
    /\ ensuredSince = {}
    /\ avgOp = NoAvg
    /\ tracking = FALSE
    /\ lastOp = [op |-> "init", id |-> NULL, status |-> "none", out |-> "none",
                 sent |-> "none"]
    /\ GeoInit
    /\ MarkerInit(FALSE)
    /\ FilterInit
    /\ LoadInit
    /\ IdentityInit
    /\ BackendInit

SpecNormalize == InitNormalize /\ [][NormalizeSpot]_vars

\* ---- the result list and its markers ----
\* input listener of #q (line 927): any text, letting the ids in pass through the text filter
QInputWith(pass) ==
    /\ MCommit(applyFilters(MBegin("applyFilters"), geoScope, pass))
    /\ UNCHANGED <<sessionVars, geoVars, filterVars, outerVars>>

QInput == \E pass \in SUBSET Range(RawSpots) : QInputWith(pass)

NextMarkers ==
    \/ QInput
    \/ RegionChange
    \/ ResetClick

InitMarkers ==
    /\ memberAuth = [user |-> NULL, idToken |-> NULL, isLoggedIn |-> FALSE]
    /\ favs = {}
    /\ commentsCache = <<>>
    /\ searchHistory = <<>>
    /\ selectedId = NULL
    /\ panelActive = FALSE
    /\ panelForm = NoForm
    /\ pending = EmptyBag
    /\ staleKeys = {}
    /\ ensuredSince = {}
    /\ avgOp = NoAvg
    /\ tracking = FALSE
    /\ lastOp = [op |-> "init", id |-> NULL, status |-> "none", out |-> "none",
                 sent |-> "none"]
    /\ GeoInit
    /\ \E loaded \in BOOLEAN : MarkerInit(loaded)
    /\ FilterInit
    /\ OuterInit

SpecMarkers == InitMarkers /\ [][NextMarkers]_vars

\* ======================= claims =======================

\* C1: toggleFavorite called while the session is unauthenticated leaves favoriteIds
\* unchanged and issues no network request (the set of requests in flight is unchanged).
C1_GuestToggleIsNoOp ==
    [][(lastOp'.op = "toggleFav" /\ ~memberAuth.isLoggedIn)
         => (favs' = favs /\ pending' = pending /\ lastOp'.sent = "none")]_vars

\* C1 witness: a favorite button was clicked while logged out
C1_Witness ==
    lastOp.op = "toggleFav" /\ lastOp.out = "guest" /\ ~memberAuth.isLoggedIn

\* C2 (as claimed): whenever the session is unauthenticated, favoriteIds and commentCache
\* are empty, also after requests of the previous session complete.
C2_GuestSessionIsEmpty ==
    ~memberAuth.isLoggedIn => (favs = {} /\ DOMAIN commentsCache = {})

\* C3 (as claimed): the first ensureComments(placeId) of an authenticated session issues a
\* new fetch and does not return a list obtained by a request older than the session.
C3_FirstEnsureRefetches ==
    [][\A id \in Places :
         (/\ lastOp'.out \in {"hit", "fetch"}
          /\ selectedId' = id
          /\ memberAuth'.isLoggedIn
          /\ id \notin ensuredSince)
         => (lastOp'.sent = "comList" /\ id \notin staleKeys)]_vars

\* C4 (as claimed): a failed comment fetch returns the empty list and leaves commentCache
\* without an entry for the place, so that the next ensureComments fetches again.
C4_FailureNotCached ==
    (lastOp.op = "ensureCommentsDone" /\ lastOp.status = "reject")
        => (lastOp.out = "empty" /\ lastOp.id \notin DOMAIN commentsCache)

C6_TransitionClears ==
    lastOp.op = "auth"
        => /\ memberAuth.isLoggedIn = (memberAuth.user # NULL /\ memberAuth.idToken # NULL)
           /\ DOMAIN commentsCache = {}
           /\ ~memberAuth.isLoggedIn => (favs = {} /\ searchHistory = <<>>)

\* C6 witness: a logout of a session that had favorites and cached comments
C6_Witness ==
    lastOp.op = "auth" /\ lastOp.out = "hadData" /\ ~memberAuth.isLoggedIn

\* C7: a comment submission is rejected locally, with no request issued and commentCache
\* unchanged, when the session is unauthenticated, or the body is empty after trimming,
\* or the rating is outside 1..5.
C7_InvalidSubmitRejected ==
    [][\A body \in Bodies, rating \in RatingInputs :
         (/\ CommentSubmitWith(body, rating)
          /\ \/ ~memberAuth.isLoggedIn
             \/ Trim(body) = <<>>
             \/ rating \notin 1..5)
         => (lastOp'.sent = "none" /\ pending' = pending
             /\ commentsCache' = commentsCache)]_vars

\* C7 witness: a logged-in member submitted a body that is empty after trimming
C7_Witness ==
    /\ lastOp.op = "submit" /\ lastOp.out = "noText"
    /\ memberAuth.isLoggedIn /\ ~panelForm.disabled

\* C8: a valid submission does not modify the cached list when it is made; when its
\* request succeeds the returned comment is put in front of the place's cached list, the
\* previously cached comments following in their order, other places untouched.
C8_InsertAtFrontOnSuccess ==
    [][/\ lastOp'.op = "submit" => commentsCache' = commentsCache
       /\ \A t \in DOMAIN pending :
            (t.req = "comCreate" /\ SubmitCommentDoneWith(t, Ok(t.arg)))
            => /\ DOMAIN commentsCache' = DOMAIN commentsCache \cup {t.id}
               /\ Head(commentsCache'[t.id]) = t.arg
               /\ Tail(commentsCache'[t.id]) = MapGetOr(commentsCache, t.id, <<>>)
               /\ \A k \in DOMAIN commentsCache \ {t.id} :
                    commentsCache'[k] = commentsCache[k]]_vars

\* C8 witness: a created comment was put in front of a cached one
C8_Witness ==
    /\ lastOp.op = "submitDone" /\ lastOp.status = "ok"
    /\ lastOp.id \in DOMAIN commentsCache
    /\ Len(commentsCache[lastOp.id]) = 2
    /\ commentsCache[lastOp.id][1].rating = 5
    /\ commentsCache[lastOp.id][2] \in ServerComments

\* C9 (as claimed): when the create request rejects or is answered with a non-success
\* status, commentCache is left as it was.
C9_FailedSubmitLeavesCache ==
    [][(lastOp'.op = "submitDone" /\ lastOp'.status \in {"reject", "error"})
         => commentsCache' = commentsCache]_vars

\* C10: a request to the favorites, comments or search-history endpoints is issued only
\* by a handler run that ends with the session authenticated; a run that starts or
\* resumes while the session is unauthenticated issues none.
C10_RequestsOnlyWhenAuthenticated ==
    lastOp.sent # "none" => (memberAuth.isLoggedIn /\ memberAuth.idToken # NULL)

\* C10 witness: recordSearchQuery resumed after a logout and did not refresh the history
C10_Witness ==
    /\ lastOp.op = "recordSearchQueryDone" /\ lastOp.status = "ok"
    /\ ~memberAuth.isLoggedIn
    /\ lastOp.sent = "none"

\* C11 (as claimed): searchHistory is the empty list in every state in which the session
\* is unauthenticated, also when a search-history fetch started while authenticated
\* completes after the logout.
C11_GuestHistoryIsEmpty ==
    ~memberAuth.isLoggedIn => searchHistory = <<>>

\* the polygon the server holds for a cache key
ServedFor(cacheKey) ==
    ServerBoundary(cacheKey[1], IF cacheKey[2] = "" THEN NULL ELSE cacheKey[2])

\* C12: no cancellation or generation token discards a boundary response: a response that
\* carries a polygon is applied (it becomes the boundary layer and, with valid bounds, the
\* fit target) whatever the scope is when it arrives, so the response of an earlier scope
\* that arrives after the response of a later scope determines the boundary shown.
C12_StaleResponseApplied ==
    [][(geoOp'.op = "boundaryDone" /\ geoOp'.status = "ok"
        /\ ServedFor(geoOp'.call) # NoBoundary)
         => /\ geoBoundaryLayer' = ServedFor(geoOp'.call)
            /\ BagIn(ServedFor(geoOp'.call), mapLayers')
            /\ ServedFor(geoOp'.call).valid
                 => mapView'.boundary = ServedFor(geoOp'.call)]_vars

\* C12 witness: the scope is f2 and its boundary was added to the map, then the response
\* for the superseded scope f1 arrived: the map is fitted to f1 and the layer held is f1
C12_Witness ==
    /\ geoOp.op = "boundaryDone"
    /\ geoScope.prefKey = "f2"
    /\ BagIn(GeoJson("f2", NULL, FALSE), mapLayers)
    /\ geoBoundaryLayer = GeoJson("f1", NULL, TRUE)
    /\ mapView.kind = "boundary" /\ mapView.boundary = GeoJson("f1", NULL, TRUE)

\* C13 (as claimed): once a request for a cache key has completed, a later lookup of the
\* key issues no request and the cached result does not change; a city lookup that yields
\* nothing is followed by one lookup of the prefecture of that city; a run that ends
\* without a polygon fits the viewport to nothing but the bbox or the center of the scope.
C13_BoundaryCacheAndRetry ==
    [][/\ \A k \in DOMAIN geoBoundaryCache :
            /\ geoOp'.sent # k
            /\ k \in DOMAIN geoBoundaryCache'
            /\ geoBoundaryCache'[k] = geoBoundaryCache[k]
       /\ (/\ geoOp'.op = "boundaryDone"
           /\ geoOp'.call[2] # ""
           /\ <<geoOp'.call[1], "">> \notin DOMAIN geoBoundaryCache
           /\ geoOp'.call \notin DOMAIN geoBoundaryCache
           /\ geoBoundaryCache'[geoOp'.call] = NoBoundary)
            => geoOp'.sent = <<geoOp'.call[1], "">>
       /\ (geoOp'.done /\ geoOp'.got = NoBoundary) => geoOp'.fit \in {"none", "bbox", "center"}
      ]_vars

\* C14: the scope set from the selects is city-level only when region, pref and city are
\* all selected and the city is not the entire-area option; otherwise it is the next
\* coarser level whose keys are selected (pref, then region, then none); the entire-area
\* option gives the pref-level scope with cityKey null.
C14_CascadeRule ==
    [][geoOp'.op \in {"regionChange", "prefChange", "cityChange"}
         => /\ geoScope'.level =
                 IF regionSelect' # "" /\ prefSelect'.value # ""
                    /\ citySelect'.value \notin {"", EntireArea} THEN "city"
                 ELSE IF regionSelect' # "" /\ prefSelect'.value # "" THEN "pref"
                 ELSE IF regionSelect' # "" THEN "region"
                 ELSE NULL
            /\ geoScope'.level = "city"
                 => (geoScope'.key = citySelect'.value /\ geoScope'.cityKey = citySelect'.value
                     /\ geoScope'.prefKey = prefSelect'.value)
            /\ geoScope'.level = "pref"
                 => (geoScope'.key = prefSelect'.value /\ geoScope'.prefKey = prefSelect'.value)
            /\ geoScope'.level = "region" => geoScope'.key = regionSelect'
            /\ citySelect'.value = EntireArea
                 => (geoScope'.level = "pref" /\ geoScope'.cityKey = NULL)]_vars

\* C14 witness: the entire-area option was chosen and the scope is the prefecture
C14_Witness ==
    /\ geoOp.op = "cityChange"
    /\ citySelect.value = EntireArea
    /\ geoScope.level = "pref" /\ geoScope.prefKey = "f1" /\ geoScope.cityKey = NULL

\* C15: in every reachable state the scope has one of four shapes: none with key, prefKey
\* and cityKey null; region with prefKey and cityKey null; pref with prefKey set and
\* cityKey null; city with prefKey and cityKey set.
C15_ScopeShape ==
    \/ geoScope.level = NULL /\ geoScope.key = NULL
       /\ geoScope.prefKey = NULL /\ geoScope.cityKey = NULL
    \/ geoScope.level = "region" /\ geoScope.key # NULL
       /\ geoScope.prefKey = NULL /\ geoScope.cityKey = NULL
    \/ geoScope.level = "pref" /\ geoScope.prefKey # NULL /\ geoScope.cityKey = NULL
    \/ geoScope.level = "city" /\ geoScope.prefKey # NULL /\ geoScope.cityKey # NULL

\* C15 witness: a city-level scope was cleared while its boundary request was in flight
C15_Witness ==
    /\ geoOp.op = "clearGeo"
    /\ geoScope.level = NULL
    /\ \E t \in DOMAIN geoPending : t.city # NULL

\* C16 (as claimed): a region change clears the pref and city selections and gives a
\* region-level scope (none when the region is cleared); a pref change clears the city
\* selection and gives a pref-level scope; a city change leaves region and pref as they are.
C16_SelectionCascade ==
    [][/\ geoOp'.op = "regionChange"
            => /\ prefSelect'.value = "" /\ citySelect'.value = ""
               /\ geoScope'.level = IF regionSelect' = "" THEN NULL ELSE "region"
       /\ geoOp'.op = "prefChange"
            => (citySelect'.value = "" /\ geoScope'.level = "pref")
       /\ geoOp'.op = "cityChange"
            => (regionSelect' = regionSelect /\ prefSelect' = prefSelect)]_vars

\* C16 (amended): as claimed, except that a pref change to the placeholder option gives a
\* region-level scope.
C16_SelectionCascadeAmended ==
    [][/\ geoOp'.op = "regionChange"
            => /\ prefSelect'.value = "" /\ citySelect'.value = ""
               /\ geoScope'.level = IF regionSelect' = "" THEN NULL ELSE "region"
       /\ geoOp'.op = "prefChange"
            => /\ citySelect'.value = ""
               /\ regionSelect' = regionSelect
               /\ geoScope'.level = IF prefSelect'.value = "" THEN "region" ELSE "pref"
       /\ geoOp'.op = "cityChange"
            => (regionSelect' = regionSelect /\ prefSelect' = prefSelect)]_vars

\* C16 witness: the pref selection was put back to its placeholder
C16_Witness ==
    /\ geoOp.op = "prefChange"
    /\ prefSelect.value = ""
    /\ regionSelect = "r1"
    /\ geoScope.level = "region"

\* C17: a run of drawGeoScope that reaches its end fits the viewport to the boundary
\* polygon when one with valid bounds was resolved, otherwise to the bounding box of the
\* scope when it has one, otherwise to center and zoom when the scope has them, and
\* otherwise leaves the viewport alone; the guide circle is never the fit target.
C17_FitPrecedence ==
    [][geoOp'.done
         => LET polygon == geoOp'.got # NoBoundary /\ geoOp'.got.valid
                box == Len(geoScope'.bbox) = 4
                centered == geoScope'.center # NULL /\ geoScope'.zoom # 0
            IN /\ geoOp'.fit = IF polygon THEN "boundary"
                               ELSE IF box THEN "bbox"
                               ELSE IF centered THEN "center"
                               ELSE "none"
               /\ IF geoOp'.fit = "none" THEN mapView' = mapView
                  ELSE mapView'.kind = geoOp'.fit
               /\ geoOp'.fit = "boundary" => mapView'.boundary = geoOp'.got]_vars

\* C17 witness: no polygon was resolved for a city and the viewport was fitted to its bbox
C17_Witness ==
    /\ geoOp.done /\ geoOp.fit = "bbox" /\ geoOp.got = NoBoundary
    /\ geoScope.level = "city"
    /\ mapView.kind = "bbox"

\* C18: a syncMarkers call instructs the map to add exactly the given ids that are not
\* rendered and to remove exactly the rendered ids that are not given, and after the call
\* the rendered set is the given set.
C18_SyncIsSetDifference ==
    [][/\ markerOp'.added = markerOp'.keep \ cluster
       /\ markerOp'.removed = cluster \ markerOp'.keep
       /\ cluster' = markerOp'.keep]_vars

\* C18 witness: a call that both added and removed markers
C18_Witness ==
    /\ markerOp.added # {} /\ markerOp.removed # {}
    /\ cluster = markerOp.keep

\* C19: a syncMarkers call with the id-set of the call before it issues no add and no
\* remove instruction.
C19_SyncIdempotent ==
    [][markerOp'.keep = markerOp.keep
         => (markerOp'.added = {} /\ markerOp'.removed = {} /\ cluster' = cluster)]_vars

\* C19 witness: a call with a proper non-empty subset of the markers that issued nothing
C19_Witness ==
    /\ markerOp.op = "applyFilters"
    /\ markerOp.keep # {} /\ markerOp.keep # markerPool
    /\ markerOp.added = {} /\ markerOp.removed = {}

\* C20: no place without coordinates is in the rendered marker set, nor in the id-set
\* given to syncMarkers, after bootstrap, any filter pass and reset.
C20_NoCoordlessMarkers ==
    /\ \A id \in cluster : hasCoords(id)
    /\ \A id \in markerOp.keep : hasCoords(id)
    /\ \A id \in markerPool : hasCoords(id)

\* C20 witness: reset rendered the whole list, which holds places without coordinates
C20_Witness ==
    /\ markerOp.op = "reset"
    /\ \E i \in DOMAIN PLACES : ~hasCoords(PLACES[i])
    /\ markerOp.added # {}
    /\ cluster = markerPool

\* C21 (as claimed): a pass of filterPlaces leaves the catalog as it was: PLACES keeps its
\* order and no place object of it gets, loses or changes a distance annotation.
C21_PassLeavesCatalog ==
    [][filterOp'.ran => (PLACES' = PLACES /\ placeD' = placeD)]_vars

\* C22: the list a pass returns, and the distances it carries, depend only on the inputs
\* of the pass: they are those of the same pass on a catalog no pass has touched.
C22_PassIsDeterministic ==
    [][filterOp'.ran
         => LET fresh == [FCur' EXCEPT !.placeD = [id \in DOMAIN placeD |-> NoD],
                                       !.filterOp = FilterOpRecord(filterOp'.op)]
            IN applyFiltersOf(fresh).filterOp = filterOp']_vars

\* C22 witness: a distance sort from one position on a catalog that still carries the
\* distances of an earlier sort from another position
C22_Witness ==
    /\ filterOp.ran /\ filterOp.opts.sortByDistance
    /\ currentLoc = There
    /\ Len(filterOp.out) >= 2
    /\ \E id \in DOMAIN placeD \ Range(filterOp.out) :
           hasCoords(id) /\ placeD[id] = haversineKm(Here, id)

\* C23: when a pass runs with a coordinate test active (a scope with center and radius, a
\* circle or rectangle selection, or the viewport-only flag) its list holds no place
\* without coordinates.
C23_CoordTestExcludesCoordless ==
    [][(/\ filterOp'.ran
        /\ \/ geoScope'.center # NULL /\ geoScope'.radius # 0
           \/ selectionLayer'.kind # "none"
           \/ filterOp'.opts.boundsOnly)
         => \A i \in DOMAIN filterOp'.out : hasCoords(filterOp'.out[i])]_vars

\* C23 witness: a pass with a circle selection and the viewport-only flag that lists places
C23_Witness ==
    /\ filterOp.ran /\ filterOp.opts.boundsOnly
    /\ selectionLayer.kind = "circle"
    /\ filterOp.out # <<>>
    /\ \E i \in DOMAIN PLACES : ~hasCoords(PLACES[i])

\* C24 (as claimed): when a pass runs with no coordinate test active, every place without
\* coordinates that passes the label, tag, text, discount and favorites stages is listed.
C24_CoordlessListedWithoutCoordTest ==
    [][(/\ filterOp'.ran
        /\ geoScope'.center = NULL \/ geoScope'.radius = 0
        /\ selectionLayer'.kind = "none"
        /\ ~filterOp'.opts.boundsOnly)
         => \A id \in Range(PLACES') :
                (~hasCoords(id)
                 /\ OtherStages(FCur', id, tokens(filterOp'.query), filterOp'.opts))
                    => id \in Range(filterOp'.out)]_vars

\* C25 (as claimed): a place passes the label stages of a pass iff, for each level whose
\* key is active in the scope (region, pref, city), its label of that level is the key or
\* its address contains the key.
C25_LabelOrAddress ==
    [][filterOp'.ran
         => \A id \in Range(PLACES') :
                LabelMatch(id, geoScope')
                  <=> /\ (geoScope'.level = "region" /\ geoScope'.key # NULL)
                          => \/ Spot(id).region = geoScope'.key
                             \/ Includes(Spot(id).address, Chars(geoScope'.key))
                      /\ geoScope'.prefKey # NULL
                          => \/ Spot(id).pref = geoScope'.prefKey
                             \/ Includes(Spot(id).address, Chars(geoScope'.prefKey))
                      /\ geoScope'.cityKey # NULL
                          => \/ Spot(id).city = geoScope'.cityKey
                             \/ Includes(Spot(id).address, Chars(geoScope'.cityKey))]_vars

\* C26: with the other filters at rest, a place with coordinates is listed iff every token
\* of the query (a maximal run of characters that are neither separators nor whitespace,
\* lowercased) is contained in one of its lowercased name, description, address, region,
\* pref, city or tag fields; a query without tokens excludes nothing.
C26_TextQuery ==
    [][filterOp'.ran
         => LET query == filterOp'.query
                word(i) == query[i] \notin Separators \cup Whitespace
                toks == {toLowerCase(SubSeq(query, i, j)) : <<i, j>> \in
                           {ij \in (DOMAIN query) \X (DOMAIN query) :
                              /\ ij[1] <= ij[2]
                              /\ \A k \in ij[1]..ij[2] : word(k)
                              /\ ij[1] = 1 \/ ~word(ij[1] - 1)
                              /\ ij[2] = Len(query) \/ ~word(ij[2] + 1)}}
                fields(id) == {Spot(id).name, Spot(id).desc, Spot(id).address,
                               Chars(Spot(id).region), Chars(Spot(id).pref),
                               Chars(Spot(id).city)}
                              \cup {Chars(t) : t \in Range(Spot(id).tags)}
            IN \A id \in Range(PLACES') :
                   hasCoords(id)
                     => (id \in Range(filterOp'.out)
                           <=> \A t \in toks : \E fld \in fields(id) :
                                   Includes(toLowerCase(fld), t))]_vars

\* C26 witness: a query of two tokens, one typed in upper case, that lists p1 and not p3
C26_Witness ==
    /\ filterOp.ran
    /\ filterOp.query = <<"B", "|", "a">>
    /\ "p1" \in Range(filterOp.out)
    /\ "p3" \notin Range(filterOp.out)

\* C27: while the visitor is not logged in the favorites filter is not applied: the
\* checkbox is unchecked, and a pass neither takes the option nor returns another list
\* than it would with the checkbox in its other position; the run that ends a session
\* leaves the checkbox unchecked.
C27_NoFavoritesFilterForGuests ==
    [][~memberAuth'.isLoggedIn
         => /\ ~onlyFavs'.checked
            /\ filterOp'.ran
                 => LET other == [FCur' EXCEPT !.onlyFavs.checked = ~@,
                                               !.filterOp = FilterOpRecord(filterOp'.op)]
                    IN /\ ~filterOp'.opts.onlyFavs
                       /\ applyFiltersOf(other).filterOp.out = filterOp'.out]_vars

\* C27 witness: the auth listener ran for a logout while #onlyFavs was checked and a
\* favorite was held, and ended with a pass
C27_Witness ==
    /\ lastOp.op = "auth"
    /\ ~memberAuth.isLoggedIn
    /\ filterOp.flag
    /\ filterOp.ran
    /\ "p1" \in Range(filterOp.out)
    /\ ~onlyFavs.checked
    /\ onlyFavs.disabled

\* C28 (as claimed): a pass asked to sort by distance with a position known lists the
\* places by non-decreasing distance from the position, a place at distance 0 first and
\* the places without coordinates last; any other pass lists them in catalog order.
C28_DistanceOrder ==
    [][filterOp'.ran
         => LET out == filterOp'.out
                dist(id) == IF hasCoords(id) THEN haversineKm(currentLoc', id) ELSE Infinity
                at(id) == CHOOSE i \in DOMAIN PLACES' : PLACES'[i] = id
            IN IF sortByDistance' /\ currentLoc' # NULL
               THEN \A i, j \in DOMAIN out : i < j => dist(out[i]) <= dist(out[j])
               ELSE \A i, j \in DOMAIN out : i < j => at(out[i]) < at(out[j])]_vars

\* C29: avgRating issues no request and leaves commentsCache as it is; it returns
\* avg 0 and count 0 when the cache holds no comment for the place, and otherwise count
\* is the length of the cached list and avg is the sum of its ratings divided by count
\* (ratings 3 and 5 give avg 4 and count 2).
C29_AverageOfCachedRatings ==
    [][lastOp'.op = "avgRating"
         => LET arr == MapGetOr(commentsCache, lastOp'.id, <<>>)
                S[i \in 0..Len(arr)] == IF i = 0 THEN 0 ELSE S[i - 1] + arr[i].rating
            IN /\ pending' = pending
               /\ commentsCache' = commentsCache
               /\ avgOp'.id = lastOp'.id
               /\ avgOp'.avg.den > 0
               /\ arr = <<>> => (avgOp'.avg.num = 0 /\ avgOp'.count = 0)
               /\ arr # <<>> => /\ avgOp'.count = Len(arr)
                                /\ avgOp'.avg.num * avgOp'.count = S[Len(arr)] * avgOp'.avg.den
               /\ (Len(arr) = 2 /\ arr[1].rating = 3 /\ arr[2].rating = 5)
                    => (avgOp'.avg = [num |-> 4, den |-> 1] /\ avgOp'.count = 2)]_vars

\* avgRating ran on a place whose cached comments are rated 3 and 5
C29_Witness ==
    /\ lastOp.op = "avgRating"
    /\ avgOp.id = "p1"
    /\ "p1" \in DOMAIN commentsCache
    /\ Len(commentsCache["p1"]) = 2
    /\ commentsCache["p1"][1].rating = 3
    /\ commentsCache["p1"][2].rating = 5
    /\ avgOp.avg = [num |-> 4, den |-> 1]
    /\ avgOp.count = 2

\* C30: a listener run that ends after changing what the list shows - an auth transition,
\* a favorite toggle, a change of a flag, a comment added to the cache - ends with a pass
\* of filterPlaces, and that pass is the one of the state the run leaves.
C30_PassFollowsMutation ==
    [][(/\ lastOp'.sent = "none"
        /\ \/ lastOp'.op \in {"auth", "loadFavoritesDone", "refreshSearchHistoryDone",
                              "authPanelDone"}
           \/ lastOp'.op = "toggleFavDone" /\ favs' # favs
           \/ lastOp'.op = "onlyFavsChange"
           \/ lastOp'.op = "submitDone" /\ commentsCache' # commentsCache)
         => /\ filterOp'.ran
            /\ LET again == [FCur' EXCEPT !.filterOp = FilterOpRecord(filterOp'.op)]
               IN applyFiltersOf(again).filterOp = filterOp']_vars

\* C31: with every request answered, a run of the auth listener, begun or waiting for
\* its favorites, its search history or its panel, is followed by the end of a run of
\* the listener with a pass of filterPlaces on the state it leaves, the favorites and
\* the history settled.
C31_PassAfterTransition ==
    LET Waiting == \E t \in BagToSet(pending) :
                       t.req = "favList" \/ (t.req \in {"histList", "comList"} /\ t.cont = "auth")
        Ended == /\ lastOp.op \in {"auth", "loadFavoritesDone", "refreshSearchHistoryDone",
                                   "authPanelDone"}
                 /\ lastOp.sent = "none"
        Passed == /\ filterOp.ran
                  /\ LET again == [FCur EXCEPT !.filterOp = [FilterOpRecord(filterOp.op) EXCEPT
                                                                !.flag = filterOp.flag]]
                     IN applyFiltersOf(again).filterOp = filterOp
    IN (lastOp.op = "auth" \/ Waiting) ~> (Ended /\ Passed)

\* C31 witness: a login whose favorites and history were fetched ended with a pass
C31_Witness ==
    /\ lastOp.op = "refreshSearchHistoryDone"
    /\ lastOp.sent = "none"
    /\ memberAuth.isLoggedIn
    /\ favs # {}
    /\ searchHistory # <<>>
    /\ filterOp.ran
    /\ pending = EmptyBag

\* C32: when the raw lat or the raw lon is blank, null or not a numeral, normalizeSpot
\* leaves both coordinates absent and hasCoords false; in every place it makes,
\* hasCoords is true iff lat and lon are both finite numbers.
C32_LenientCoordinates ==
    spot.made
      => LET Unusable(v) == v \in {"", " ", NULL, "abc"}
         IN /\ (Unusable(rawSpot.lat) \/ Unusable(rawSpot.lon))
                 => (spot.lat = NoCoord /\ spot.lon = NoCoord /\ ~spot.hasCoords)
            /\ spot.hasCoords <=> (isFinite(spot.lat) /\ isFinite(spot.lon))

\* C33: whatever sequence of circle placements, rectangle placements, radius changes and
\* resets has run, the map shows at most one selection, the one selectionLayer holds, and
\* the centre marker is on the map exactly while that selection is a circle.
C33_OneSelection ==
    LET Shown(layer) == IF layer.kind = "none" THEN EmptyBag ELSE SetToBag({layer})
    IN /\ mapShapes = Shown(selectionLayer) (+) Shown(centerDot)
       /\ selectionLayer.kind \in {"none", "circle", "rect"}
       /\ centerDot.kind \in {"none", "dot"}
       /\ centerDot.kind = "dot" <=> selectionLayer.kind = "circle"
       /\ centerDot.kind = "dot" => centerDot.area = selectionLayer.area

\* a circle placed around the located position and then shrunk to radius 0
C33_Witness ==
    /\ selectionLayer = Circle(Here, 0)
    /\ centerDot = CircleMarker(Here)
    /\ BagCardinality(mapShapes) = 2
    /\ filterOp.ran

\* C34: once no run of handleAuthState is suspended any more, the last event emitted
\* carries the user the provider reported last; after a sign-out it carries no user.
C34_LastEventIsLatestUser ==
    (verifying = EmptyBag /\ providerUser = NULL) => firebaseAuthState.user = NULL

\* C40: the event last emitted carries a user and a credential or neither, and a step of
\* handleAuthState at which the verification failed emitted the event without both.
C40_UserWithCredential ==
    /\ firebaseAuthState.user = NULL <=> firebaseAuthState.idToken = NULL
    /\ memberAuth.user = firebaseAuthState.user /\ memberAuth.idToken = firebaseAuthState.idToken
    /\ identityOp.failed
         => /\ identityOp.emits
            /\ firebaseAuthState = [user |-> NULL, idToken |-> NULL]

\* the verification request of a signed-in user answered with a non-success status and
\* the page was told that nobody is logged in
C40_Witness ==
    /\ identityOp = [op |-> "fetch", user |-> "u1", emits |-> TRUE, failed |-> TRUE]
    /\ providerUser = "u1"
    /\ firebaseAuthState.user = NULL
    /\ ~memberAuth.isLoggedIn
    /\ lastOp.op = "auth"

\* C35: while a member is logged in and no favorites request is in flight, every one of
\* them having been answered with success, favs is the set the backend stores.
C35_FavsMatchBackend ==
    (/\ memberAuth.isLoggedIn
     /\ \A t \in BagToSet(pending) : t.req \notin FavRequests)
        => favs = backendFavs

\* C36: when two toggleFav calls on one place have both been answered with success, with
\* no other favorites request and no auth event in between, the place is a favorite
\* exactly if it was one before the first call.
C36_TwoTogglesRestore ==
    (toggleOp.sent = 2 /\ toggleOp.done = 2)
        => (toggleOp.id \in favs <=> toggleOp.before)

\* C37: the boundary layers on the map are none or exactly one, the layer geoBoundaryLayer
\* holds, whatever scope changes, clears and resets have run and however the boundary
\* requests of drawGeoScope runs overlapped.
C37_OneBoundaryLayer ==
    /\ BagCardinality(mapLayers) <= 1
    /\ mapLayers = IF geoBoundaryLayer = NoBoundary THEN EmptyBag
                   ELSE SetToBag({geoBoundaryLayer})

\* C38: while nobody is logged in, isFav is false for every place, whatever favs holds.
C38_GuestHasNoFavorites ==
    ~memberAuth.isLoggedIn => \A id \in Places : ~isFav(FCur, id)

\* favorites that arrived after the member had logged out
C38_Witness ==
    /\ ~memberAuth.isLoggedIn
    /\ favs # {}
    /\ lastOp.op = "loadFavoritesDone"

\* C39: the list render is given at bootstrap and by the reset button is the list
\* filterPlaces returns for an empty query with every option off while no scope, no
\* selection and no tag is set.
C39_UnfilteredListIsDefaultPass ==
    markerOp.op \in {"bootstrap", "reset"}
        => LET f == [FCur EXCEPT !.geoScope = NoScope,
                                 !.selectionLayer = NoSelection,
                                 !.selectedTags = {}]
               opts == [onlyFavs |-> FALSE, onlyDiscount |-> FALSE, boundsOnly |-> FALSE,
                        sortByDistance |-> FALSE]
           IN markerOp.list = filterPlacesOf(f, <<>>, opts).ret

====
